---- MODULE Spec2Model ----
(***************************************************************************)
(* State-machine model of the iDea energy controller:                      *)
(*   - the unified controller (idea_controller_unificato.py): ConfigManager*)
(*     flags and sidecar files, ToiDeaManager, the self-consumption,       *)
(*     battery, watchdog and four scheduled-service controllers, and the   *)
(*     cooperative scheduler IdeaUnifiedApp.run_forever;                   *)
(*   - the bus server (idea_server.py): the ToiDea watcher thread, the     *)
(*     single-slot command inbox PENDING_CMD and the I/O worker thread.    *)
(*                                                                         *)
(* Time is counted in units of 0.5 s for the scheduler; the wall clock the *)
(* services compare with their event window is the integer `clock`.        *)
(* Register values read from FromiDea.xml are inputs of each tick, drawn   *)
(* from small sets that hit every branch of the code.                      *)
(***************************************************************************)
EXTENDS Integers, Sequences, FiniteSets, TLC

(***************************************************************************)
(* Bounds of the model                                                     *)
(***************************************************************************)
\* last value of the wall clock (event windows are placed inside 0..MaxClock)
MaxClock == 2
\* number of external edits of the JSON configuration file in one run
MaxEdits == 1
\* number of scheduled services the configuration schedules for today
MaxActive == 2
\* number of command files the environment writes into ToiDea.xml (bus server)
MaxCmds == 3
\* last value of the bus server's time, in time steps
MaxTime == 4
\* number of write_register calls of the controller beside the bus server
MaxWrites == 2
\* number of polling cycles of the bus server's read loop
MaxCycles == 2
\* length of the configured read_blocks list
MaxBlocks == 4
\* number of foreign frames the bus shows in one run
MaxForeign == 4
\* the detection window of the bus server's configuration, in time steps
\* (default 10 s at line 90 of idea_server.py)
foreign_window_s == 2
\* step sizes of the configuration, coarsened so that the setpoint ranges
\* are crossed in a few ticks (defaults 50 and 20 at lines 87, 102, 103)
step_emergency_1101 == 1250
step_local == 2965
step_community == 2965

(***************************************************************************)
(* Configuration values (ConfigManager._default_config and the .get()      *)
(* defaults of the controllers' constructors)                              *)
(***************************************************************************)
contatore_prelievo_w == 3000
contatore_immissione_w == 3000
emergency_start_soc_dec == 50
emergency_stop_soc_dec == 400
ibat_low_min == 0
ibat_low_max == 500
ibat_max == 6000
emergency_1101_max == 0
\* ibat_min of the standalone battery controller
ibat_min == 5000
emergency_grid_limit_w == 2800
emergency_grid_hysteresis_w == 100
guardrail_1101_min == -2500
param1101_min == 70
param1101_max == 6000
grid_setpoint_1090 == 5000
grid_deadband == 50
\* bt_loss_factor = 0.10, kept as the fraction bt_loss_num / bt_loss_den
bt_loss_num == 1
bt_loss_den == 10
soc_threshold_community == 950
partition_soc_dec == 300
max_attempts == 5
\* CFG.get("foreign_threshold", 3) of the bus server
foreign_threshold == 3
\* CFG.get("write_retries", 3) of the bus server
write_retries == 3
\* the value at which ToiDeaManager.current_id starts again from 0
id_wrap == 6000
\* writer_commit_register and writer_commit_value of a bus server set up
\* for write-with-commit (CFG.get defaults: 0, which turns it off, and 1)
writer_commit_register == 1200
writer_commit_value == 1

\* intervals of run_forever, in units of 0.5 s
intervals ==
  [cfg_reload |-> 2, autocons |-> 1, batt |-> 10, reset |-> 60,
   dso_carica |-> 10, dso_scarica |-> 10, trading_scarica |-> 10,
   trading_carica |-> 10]

\* the order in which run_forever looks at the controllers in one iteration
ORDER ==
  <<"cfg_reload", "autocons", "batt", "reset",
    "dso_carica", "dso_scarica", "trading_scarica", "trading_carica">>

SERVICES == {"dso_carica", "dso_scarica", "trading_scarica", "trading_carica"}
CONTROLLERS == {ORDER[i] : i \in 1..Len(ORDER)}

\* time between two iterations of the loop, in 0.5 s units: the process comes
\* back after the longest interval, so every controller is due again
Advances == {60}

\* event windows <<start, end>> of the programs; the second has end < start
Windows == {<<1, 2>>, <<2, 1>>}
NoWindow == <<-1, -1>>

(***************************************************************************)
(* Inputs: register values found in FromiDea.xml at a tick                 *)
(***************************************************************************)
IbatValues == {300, 6500}
BattGridValues == {0, 300, 4800}
LocalGridValues == {4800, 5000, 5200, 7000, 10001}
RemoteGridValues == {0, 4000}
MachineStates == {2, 3}
\* 1070 of a machine that goes to sleep or into error: 0 and 1 are reset
FaultStates == {0, 1, 2, 3}

FlagNames ==
  {"autoconsumo_enabled", "service_active", "macchina_allarme",
   "debito_energetico", "sharing_enabled"}

\* flags section of _default_config
DefaultFlags ==
  [autoconsumo_enabled |-> TRUE, service_active |-> FALSE,
   macchina_allarme |-> FALSE, debito_energetico |-> FALSE,
   sharing_enabled |-> TRUE]

\* flags sections an external editor leaves in the JSON file
FileFlagSets == {DefaultFlags}

\* what an external edit leaves in the JSON file: "changed" a complete
\* configuration, "no_paths" a configuration without its paths section,
\* "broken" text that is not JSON, "not_object" JSON that is not an object
EditKinds == {"changed", "no_paths", "broken", "not_object"}

VARIABLES
  \* ---- ConfigManager
  flags,          \* self.data["flags"], in memory
  sidecar,        \* the legacy flag files (guardrail, service_status, ...)
  file_flags,     \* flags section of the JSON file on disk
  file_status,    \* "same": mtime = _last_mtime, else the kind of the edit
  paths_ok,       \* self.data["paths"] has the entries cfg.path() is asked for
  edits,          \* external edits so far
  services,       \* self.data["services"] as the constructors find it
  programs,       \* self.data["programs"] as the constructors find it
  \* ---- ToiDeaManager
  last_values,    \* cache of the last value written per register
  \* ---- controllers
  current_setpoint_1101,
  emergency_active,
  active, state, event_start, event_end,
  reset_attempts, alarm_active,
  \* ---- scheduler
  pc,             \* controller the iteration is at, "sleep" or "stopped"
  next_run,       \* next_run[k] - now, never below 0
  clock,          \* datetime.now() on the scale of the event windows
  since_tick,     \* per controller: `now` minus the `now` of the iteration
                  \* that ticked it last, capped at the longest interval; -1
                  \* before its first tick (not in the source)
  last,           \* what the last step did: who, the inputs it read, its
                  \* register writes in order, its set_* calls, and the
                  \* branch it took (for a service: its state before the tick)
  \* ---- history of the controller ticks (not in the source)
  watched,        \* the controller whose consecutive ticks are compared, or
                  \* "none"
  prev,           \* <<>> or <<what the last tick of `watched` read and wrote>>
  n1103,          \* 1103 writes issued since a watchdog tick last saw 1070 = 2
  \* ---- bus server (idea_server.py)
  TO_FILE, PENDING_CMD, LAST_TOIDEA_ID, w_pc, w_cmd,
  io_pc, io_cmd, executed, overwritten, nseq,
  \* ---- bus server, foreign-master detection
  t_now,          \* time.time(), in time steps
  FOREIGN_TIMES, FOREIGN_FRAMES_TOTAL, FOREIGN_ALERT,
  FOREIGN_LAST_ISO,   \* <<>> for "", else <<time of the last foreign frame>>
  FROM_FILE,      \* <<>> or <<the meta section of FromiDea.xml>>
  events,         \* times of all the calls of note_foreign (not in the source)
  cycle_start,    \* Len(events) when the running polling cycle began
  \* ---- bus server, the write loop of io_worker
  io_attempts,    \* `attempts` of the command being written
  io_ok,          \* `ok` of the command being written
  io_fault,       \* the bus failed to answer during these attempts (not in
                  \* the source)
  io_commit,      \* the last attempt's commit-register write: "none" (not
                  \* made), "ok" or "failed" (not in the source)
  write_ok, write_err,    \* STATS["write_ok"], STATS["write_err"]
  LAST_WRITER_ID,
  \* ---- ToiDeaManager, the file half of write_register
  current_id,
  tx,             \* the write_register calls the running tick has still to make
  issued,         \* per command file written, in order: who wrote it, and
                  \* whether a later write of the same tick follows (not in
                  \* the source)
  file_lost,      \* seq of the command files replaced in ToiDea.xml before
                  \* the watcher read them (not in the source)
  \* ---- bus server, the read half of io_worker
  read_blocks,    \* CFG["read_blocks"], a list of addresses
  read_max_chunk, \* CFG["read_max_chunk"]
  r_pc,           \* "plan": before step 2; "read": in the chunk loops;
                  \* "publish": before write_fromidea
  chunks,         \* the (s, ln) pairs of the two for loops, in order
  r_k,            \* index in chunks of the chunk being read
  r_cur,          \* `cur`
  values,         \* `values`: a dict, here a function on the addresses read
  LAST_OK,        \* the dict LAST_OK
  any_ok,
  snapshot,       \* the register elements of FromiDea.xml, in file order
  last_good,      \* per address the value of its most recent successful
                  \* read, 0 before the first (not in the source)
  unreadable,     \* addresses of the ranges logged "no answer" in this
                  \* cycle (not in the source)
  cycles,         \* polling cycles begun
  \* ---- the standalone scripts battery_controller.py and
  \* ---- controllo_reset_macchina.py
  legacy,         \* BatteryController.emergency_active, the VAL of its
                  \* ToiDea.xml and its guardrail file;
                  \* MachineStateResetService.reset_attempts, alarm_active
                  \* and its alarm file
  legacy_last     \* what the scripts' last ticks read, wrote and took

cfgVars ==
  <<flags, sidecar, file_flags, file_status, paths_ok, edits, services,
    programs>>
toiVars == <<last_values>>
ctlVars ==
  <<current_setpoint_1101, emergency_active, active, state, event_start,
    event_end, reset_attempts, alarm_active>>
schedVars == <<pc, next_run, clock, since_tick, last>>
obsVars == <<watched, prev, n1103>>
appVars == <<cfgVars, toiVars, ctlVars, schedVars, obsVars>>
fgnVars ==
  <<t_now, FOREIGN_TIMES, FOREIGN_FRAMES_TOTAL, FOREIGN_ALERT,
    FOREIGN_LAST_ISO, FROM_FILE, events, cycle_start>>
wrVars ==
  <<io_attempts, io_ok, io_fault, io_commit, write_ok, write_err,
    LAST_WRITER_ID>>
busVars == <<current_id, tx, issued, file_lost>>
legVars == <<legacy, legacy_last>>
rdVars ==
  <<read_blocks, read_max_chunk, r_pc, chunks, r_k, r_cur, values, LAST_OK,
    any_ok, snapshot, last_good, unreadable, cycles>>
busSrvVars ==
  <<TO_FILE, PENDING_CMD, LAST_TOIDEA_ID, w_pc, w_cmd, io_pc, io_cmd,
    executed, overwritten, nseq, fgnVars, wrVars, busVars, rdVars>>
srvVars == <<busSrvVars, legVars>>
vars == <<appVars, srvVars>>

(***************************************************************************)
(* ConfigManager: flags in memory and their mirror files                   *)
(***************************************************************************)
\* _write_guardrail_txt, _write_service_status_txt, _write_debito_txt,
\* _write_macchina_allarme_txt, _write_sharing_xml: the text each one writes
MirrorText(name, v) ==
  CASE name = "autoconsumo_enabled" -> IF v THEN "AUTOCONSUMO=1" ELSE "AUTOCONSUMO=0"
    [] name = "service_active" -> IF v THEN "SERVICE=1" ELSE "SERVICE=0"
    [] name = "debito_energetico" -> IF v THEN "DebitoEnergetico=1" ELSE "DebitoEnergetico=0"
    [] name = "macchina_allarme" -> IF v THEN "MACCHINA IN ALLARME" ELSE "MACCHINA OK"
    [] name = "sharing_enabled" -> IF v THEN "<sharing>1</sharing>" ELSE "<sharing>0</sharing>"

\* sync_flag_files: every mirror rewritten from the flags in memory
sync_flag_files(f) == [n \in FlagNames |-> MirrorText(n, f[n])]

\* A tick's calls of set_autoconsumo_enabled, set_service_active,
\* set_debito_energetico and set_macchina_allarme are collected in a record
\* whose field is <<>> (no call) or <<v>> (last call set v).
NoSets ==
  [autoconsumo_enabled |-> <<>>, service_active |-> <<>>,
   debito_energetico |-> <<>>, macchina_allarme |-> <<>>]

SetNames == DOMAIN NoSets

\* set_*: the flag in memory ...
set_flags(f, sets) ==
  [n \in FlagNames |->
     IF n \in SetNames /\ sets[n] # <<>> THEN sets[n][1] ELSE f[n]]

\* ... and its own mirror file
set_sidecar(sc, sets) ==
  [n \in FlagNames |->
     IF n \in SetNames /\ sets[n] # <<>> THEN MirrorText(n, sets[n][1])
     ELSE sc[n]]

(***************************************************************************)
(* ToiDeaManager: the cache half of write_register, and get_register.      *)
(* last_values is the dict of the source: a function whose domain is the   *)
(* set of registers written so far.  The only read of the cache is         *)
(* get_register(1101, 0) in the emergency regulator, so the model keeps    *)
(* the entries of the registers in CachedRegs and drops the others.        *)
(***************************************************************************)
CachedRegs == {1101}

RECURSIVE write_register(_, _)
\* the cache after the writes w = << <<reg, val>>, ... >>, applied in order
write_register(lv, w) ==
  IF w = <<>> THEN lv
  ELSE IF w[1][1] \notin CachedRegs THEN write_register(lv, Tail(w))
  ELSE write_register(
         [r \in DOMAIN lv \cup {w[1][1]} |->
            IF r = w[1][1] THEN w[1][2] ELSE lv[r]],
         Tail(w))

get_register(lv, reg, default) ==
  IF reg \in DOMAIN lv THEN lv[reg] ELSE default

\* the values a sequence of writes gives to register reg
WritesTo(w, reg) == {w[i][2] : i \in {j \in 1..Len(w) : w[j][1] = reg}}

Abs(x) == IF x < 0 THEN -x ELSE x
Max2(a, b) == IF a > b THEN a ELSE b

(***************************************************************************)
(* BatteryControllerUnified                                                *)
(***************************************************************************)
\* _meter_convert_1090_to_power: <<P_prelievo, P_immissione>>, both
\* multiplied by 5000 so that the ratio (5000 - v) / 5000.0 stays exact
meter_convert_1090_to_power(par1090) ==
  IF par1090 <= 5000
  THEN <<(5000 - par1090) * contatore_prelievo_w, 0>>
  ELSE <<0, (par1090 - 5000) * contatore_immissione_w>>

\* the numeric limits of the emergency regulator: not below par_1101_min,
\* not above emergency_1101_max
emergency_limits(nuovo_1101) ==
  LET lo == IF nuovo_1101 < guardrail_1101_min THEN guardrail_1101_min
            ELSE nuovo_1101
  IN IF lo > emergency_1101_max THEN emergency_1101_max ELSE lo

\* the guardrail on the battery current that follows the numeric limits
ibat_guardrail(nuovo_1101, ibat) ==
  IF ibat > ibat_max
  THEN Max2(nuovo_1101 + step_emergency_1101, emergency_1101_max)
  ELSE nuovo_1101

\* the meter-based regulation of _handle_emergency_charge: <<>> when 1101 is
\* left as it is, else <<value written to 1101>>
emergency_regulation(current_1101, par1090, ibat) ==
  LET p_pre == meter_convert_1090_to_power(par1090)[1]
      limit == 5000 * emergency_grid_limit_w
      hyst == 5000 * emergency_grid_hysteresis_w
  IN IF p_pre < limit - hyst
     THEN <<ibat_guardrail(
              emergency_limits(current_1101 - step_emergency_1101), ibat)>>
     ELSE IF p_pre > limit + hyst
     THEN <<ibat_guardrail(
              emergency_limits(current_1101 + step_emergency_1101), ibat)>>
     ELSE <<>>

\* _handle_emergency_charge: the new emergency_active, the register writes in
\* order, the flag sets, and the branch taken
handle_emergency_charge(ea, lv, soc, ibat, par1090) ==
  LET enter == /\ ~ea
               /\ soc = emergency_start_soc_dec
               /\ ibat_low_min <= ibat /\ ibat <= ibat_low_max
      w1 == IF enter THEN << <<1102, 1>> >> ELSE <<>>
      s1 == IF enter THEN [NoSets EXCEPT !.autoconsumo_enabled = <<FALSE>>]
            ELSE NoSets
      reg == emergency_regulation(get_register(lv, 1101, 0), par1090, ibat)
  IN IF ~(ea \/ enter)
     THEN [emergency_active |-> FALSE, writes |-> <<>>, sets |-> NoSets,
           branch |-> "idle"]
     ELSE IF soc >= emergency_stop_soc_dec
     THEN [emergency_active |-> FALSE,
           writes |-> w1 \o << <<1102, 3>>, <<1101, 0>> >>,
           sets |-> [s1 EXCEPT !.autoconsumo_enabled = <<TRUE>>],
           branch |-> "exit"]
     ELSE [emergency_active |-> TRUE,
           writes |-> IF reg = <<>> THEN w1 ELSE w1 \o << <<1101, reg[1]>> >>,
           sets |-> s1,
           branch |-> IF enter THEN "enter" ELSE "regulate"]

\* variant without the test of is_service_active()
battery_tick_ignores_service(ea, lv, f, in) ==
  IF ~in.read_ok
  THEN [emergency_active |-> ea, writes |-> <<>>, sets |-> NoSets,
        branch |-> "unread"]
  ELSE handle_emergency_charge(ea, lv, in.soc, in.ibat, in.v1090)

\* BatteryControllerUnified.tick
battery_tick(ea, lv, f, in) ==
  IF ~in.read_ok
  THEN [emergency_active |-> ea, writes |-> <<>>, sets |-> NoSets,
        branch |-> "unread"]
  ELSE IF f.service_active
  THEN [emergency_active |-> ea, writes |-> <<>>, sets |-> NoSets,
        branch |-> "service"]
  ELSE handle_emergency_charge(ea, lv, in.soc, in.ibat, in.v1090)

\* a failed read; SOC at the entry threshold with the current inside and
\* outside the entry window; SOC between the thresholds with every current
\* and meter value; SOC above the exit threshold
BattInputs ==
  {[read_ok |-> FALSE, soc |-> 0, ibat |-> 0, v1090 |-> 0]} \cup
  [read_ok : {TRUE}, soc : {50}, ibat : {300}, v1090 : BattGridValues] \cup
  [read_ok : {TRUE}, soc : {50}, ibat : {6500}, v1090 : {4800}] \cup
  [read_ok : {TRUE}, soc : {290}, ibat : IbatValues,
   v1090 : BattGridValues] \cup
  [read_ok : {TRUE}, soc : {600}, ibat : {300}, v1090 : {4800}]

(***************************************************************************)
(* IdeaNodeControllerUnified (self-consumption / community)                *)
(***************************************************************************)
\* variant without the upper if
clamp_setpoint_no_max(x) == IF x < param1101_min THEN param1101_min ELSE x

\* the two ifs that keep current_setpoint_1101 in [param1101_min, param1101_max]
clamp_setpoint(x) ==
  LET lo == IF x < param1101_min THEN param1101_min ELSE x
  IN IF lo > param1101_max THEN param1101_max ELSE lo

\* _regolazione_autoconsumo_locale
regolazione_autoconsumo_locale(sp, sensor1090) ==
  LET misura == sensor1090
      errore == grid_setpoint_1090 - misura
      moved == IF Abs(errore) <= grid_deadband THEN sp
               ELSE IF errore > 0 THEN sp + step_local
               ELSE sp - step_local
      new == clamp_setpoint(moved)
      debito == new >= param1101_max /\ misura < grid_setpoint_1090 - grid_deadband
  IN IF misura < 0 \/ misura > 10000
     THEN [setpoint |-> sp, writes |-> <<>>, sets |-> NoSets,
           branch |-> "range"]
     ELSE [setpoint |-> new, writes |-> << <<1101, new>> >>,
           sets |-> [NoSets EXCEPT !.debito_energetico = <<debito>>],
           branch |-> "local"]

\* _balance_energy; target_local and errore_local are multiplied by
\* bt_loss_den so that diff_remote * bt_loss_factor stays exact
balance_energy(sp, local1090, remote1090) ==
  LET diff_remote == grid_setpoint_1090 - remote1090
      target_local == bt_loss_den * (grid_setpoint_1090 + diff_remote)
                      + diff_remote * bt_loss_num
      errore_local == target_local - bt_loss_den * local1090
      moved == IF errore_local > 0 THEN sp + step_community
               ELSE sp - step_community
      new == clamp_setpoint(moved)
  IN IF \/ local1090 < 0 \/ local1090 > 10000
        \/ remote1090 < 0 \/ remote1090 > 10000
        \/ remote1090 >= grid_setpoint_1090
        \/ diff_remote <= 0
        \/ Abs(errore_local) <= bt_loss_den * grid_deadband
     THEN [setpoint |-> sp, writes |-> <<>>, sets |-> NoSets,
           branch |-> "community_idle"]
     ELSE [setpoint |-> new, writes |-> << <<1101, new>> >>, sets |-> NoSets,
           branch |-> "community"]

\* variant without cond_debito
sharing_active_ignores_debito(f, in) ==
  LET remote1090 == IF f.sharing_enabled THEN in.remote1090 ELSE 0
  IN /\ in.soc >= soc_threshold_community
     /\ f.sharing_enabled
     /\ remote1090 > 0 /\ remote1090 < grid_setpoint_1090
     /\ in.v1090 >= grid_setpoint_1090 - 2 * grid_deadband

\* the community predicate of IdeaNodeControllerUnified.tick
sharing_active(f, in) ==
  LET remote1090 == IF f.sharing_enabled THEN in.remote1090 ELSE 0
  IN /\ ~f.debito_energetico
     /\ in.soc >= soc_threshold_community
     /\ f.sharing_enabled
     /\ remote1090 > 0 /\ remote1090 < grid_setpoint_1090
     /\ in.v1090 >= grid_setpoint_1090 - 2 * grid_deadband

\* IdeaNodeControllerUnified.tick
autocons_tick(sp, f, in) ==
  IF ~f.autoconsumo_enabled
  THEN [setpoint |-> sp, writes |-> <<>>, sets |-> NoSets, branch |-> "paused"]
  ELSE IF ~in.read_ok
  THEN [setpoint |-> sp, writes |-> <<>>, sets |-> NoSets, branch |-> "unread"]
  ELSE IF in.v1090 < 0 \/ in.v1090 > 10000
  THEN [setpoint |-> sp, writes |-> <<>>, sets |-> NoSets, branch |-> "range"]
  ELSE IF sharing_active(f, in)
  THEN balance_energy(sp, in.v1090, in.remote1090)
  ELSE regolazione_autoconsumo_locale(sp, in.v1090)

\* nothing read (the file is missing or unreadable, or the tick returns
\* before it reads); a node below the community SOC threshold with any local
\* meter value; a charged node with and without a neighbour that draws
\* (4920 lies between 5000 - 2 * deadband and 5000 - deadband)
AutoconsUnread == [read_ok |-> FALSE, soc |-> 0, v1090 |-> 0, remote1090 |-> 0]

AutoconsInputs ==
  {AutoconsUnread} \cup
  [read_ok : {TRUE}, soc : {600}, v1090 : LocalGridValues,
   remote1090 : {0}] \cup
  [read_ok : {TRUE}, soc : {950}, v1090 : {4800, 4920, 5000, 7000},
   remote1090 : RemoteGridValues]

(***************************************************************************)
(* MachineStateResetUnified (watchdog)                                     *)
(***************************************************************************)
\* variant that never stops resetting: no test of reset_attempts
reset_tick_no_limit(attempts, alarm, in) ==
  IF in.read_ok /\ in.stato \in {0, 1} /\ ~alarm
  THEN [reset_attempts |-> attempts + 1, alarm_active |-> alarm,
        writes |-> << <<1103, 10>> >>, sets |-> NoSets]
  ELSE IF in.read_ok /\ in.stato = 2
  THEN [reset_attempts |-> 0, alarm_active |-> FALSE, writes |-> <<>>,
        sets |-> IF alarm THEN [NoSets EXCEPT !.macchina_allarme = <<FALSE>>]
                 ELSE NoSets]
  ELSE [reset_attempts |-> attempts, alarm_active |-> alarm,
        writes |-> <<>>, sets |-> NoSets]

\* variant that raises the alarm together with the last reset: the tick that
\* finds reset_attempts = max_attempts - 1 writes 1103 and sets the alarm
reset_tick_early_alarm(attempts, alarm, in) ==
  IF in.read_ok /\ in.stato \in {0, 1} /\ ~alarm
  THEN [reset_attempts |-> IF attempts < max_attempts THEN attempts + 1
                           ELSE attempts,
        alarm_active |-> attempts + 1 >= max_attempts,
        writes |-> IF attempts < max_attempts THEN << <<1103, 10>> >>
                   ELSE <<>>,
        sets |-> IF attempts + 1 >= max_attempts
                 THEN [NoSets EXCEPT !.macchina_allarme = <<TRUE>>]
                 ELSE NoSets]
  ELSE IF in.read_ok /\ in.stato = 2
  THEN [reset_attempts |-> 0, alarm_active |-> FALSE, writes |-> <<>>,
        sets |-> IF alarm THEN [NoSets EXCEPT !.macchina_allarme = <<FALSE>>]
                 ELSE NoSets]
  ELSE [reset_attempts |-> attempts, alarm_active |-> alarm,
        writes |-> <<>>, sets |-> NoSets]

\* MachineStateResetUnified.tick
reset_tick(attempts, alarm, in) ==
  IF ~in.read_ok
  THEN [reset_attempts |-> attempts, alarm_active |-> alarm,
        writes |-> <<>>, sets |-> NoSets]
  ELSE IF in.stato = 2
  THEN [reset_attempts |-> 0, alarm_active |-> FALSE, writes |-> <<>>,
        sets |-> IF alarm THEN [NoSets EXCEPT !.macchina_allarme = <<FALSE>>]
                 ELSE NoSets]
  ELSE IF in.stato \in {0, 1}
  THEN IF alarm
       THEN [reset_attempts |-> attempts, alarm_active |-> alarm,
             writes |-> <<>>, sets |-> NoSets]
       ELSE IF attempts < max_attempts
       THEN [reset_attempts |-> attempts + 1, alarm_active |-> alarm,
             writes |-> << <<1103, 10>> >>, sets |-> NoSets]
       ELSE [reset_attempts |-> attempts, alarm_active |-> TRUE,
             writes |-> <<>>,
             sets |-> [NoSets EXCEPT !.macchina_allarme = <<TRUE>>]]
  ELSE [reset_attempts |-> attempts, alarm_active |-> alarm,
        writes |-> <<>>, sets |-> NoSets]

ResetInputs ==
  {[read_ok |-> FALSE, stato |-> 0]} \cup [read_ok : {TRUE}, stato : MachineStates]

WatchdogInputs ==
  {[read_ok |-> FALSE, stato |-> 0]} \cup [read_ok : {TRUE}, stato : FaultStates]

(***************************************************************************)
(* Scheduled services.  Each tick operator takes the service's state, the  *)
(* wall clock, the event window and the tick's inputs, and gives the new   *)
(* state, the register writes in order and the flag sets.                  *)
(***************************************************************************)
Keep(st) == [state |-> st, writes |-> <<>>, sets |-> NoSets]

\* CaricaForzataDSOUnified._finish_event
dso_carica_finish_event ==
  [state |-> "DONE", writes |-> << <<1102, 3>> >>,
   sets |-> [NoSets EXCEPT !.autoconsumo_enabled = <<TRUE>>,
                           !.service_active = <<FALSE>>]]

\* ScaricaForzataDSOUnified._finish_event
dso_scarica_finish_event ==
  [state |-> "DONE", writes |-> << <<1102, 3>>, <<1101, 0>> >>,
   sets |-> [NoSets EXCEPT !.autoconsumo_enabled = <<TRUE>>,
                           !.service_active = <<FALSE>>]]

\* TradingScaricaUnified._finish_event
trading_scarica_finish_event ==
  [state |-> "DONE", writes |-> << <<1102, 3>>, <<1101, 0>> >>,
   sets |-> [NoSets EXCEPT !.autoconsumo_enabled = <<TRUE>>,
                           !.service_active = <<FALSE>>]]

\* TradingCaricaUnified._finish_event
trading_carica_finish_event ==
  [state |-> "DONE", writes |-> << <<1102, 3>>, <<1101, 0>> >>,
   sets |-> [NoSets EXCEPT !.autoconsumo_enabled = <<TRUE>>,
                           !.service_active = <<FALSE>>]]

\* the test that opens every service tick: the window is over and the
\* service has not completed yet
event_concluded(st, now, ee) == now >= ee /\ st # "DONE"

\* variant that repeats the writes of the wait phase on every tick
dso_carica_tick_rewrites(st, now, es, ee, in) ==
  IF event_concluded(st, now, ee) THEN dso_carica_finish_event
  ELSE IF ~in.read_ok THEN Keep(st)
  ELSE IF now < es
  THEN IF in.soc > 50
       THEN [state |-> "PRE_DISCHARGE",
             writes |-> << <<1102, 3>>, <<1101, 6000>> >>,
             sets |-> [NoSets EXCEPT !.autoconsumo_enabled = <<FALSE>>]]
       ELSE [state |-> "WAIT_EVENT", writes |-> << <<1102, 0>> >>,
             sets |-> [NoSets EXCEPT !.autoconsumo_enabled = <<TRUE>>]]
  ELSE IF es <= now /\ now < ee
  THEN [state |-> "EVENT_ACTIVE",
        writes |-> << <<1102, 1>>, <<1101, -6000>> >>,
        sets |-> [NoSets EXCEPT !.autoconsumo_enabled = <<FALSE>>]]
  ELSE Keep(st)

\* CaricaForzataDSOUnified.tick
dso_carica_tick(st, now, es, ee, in) ==
  IF event_concluded(st, now, ee) THEN dso_carica_finish_event
  ELSE IF ~in.read_ok THEN Keep(st)
  ELSE IF now < es
  THEN IF in.soc > 50
       THEN [state |-> "PRE_DISCHARGE",
             writes |-> << <<1102, 3>>, <<1101, 6000>> >>,
             sets |-> [NoSets EXCEPT !.autoconsumo_enabled = <<FALSE>>]]
       ELSE IF st # "WAIT_EVENT"
       THEN [state |-> "WAIT_EVENT", writes |-> << <<1102, 0>> >>,
             sets |-> [NoSets EXCEPT !.autoconsumo_enabled = <<TRUE>>]]
       ELSE Keep(st)
  ELSE IF es <= now /\ now < ee
  THEN [state |-> "EVENT_ACTIVE",
        writes |-> << <<1102, 1>>, <<1101, -6000>> >>,
        sets |-> [NoSets EXCEPT !.autoconsumo_enabled = <<FALSE>>]]
  ELSE Keep(st)

\* variant that keeps discharging at the SOC floor during the event
dso_scarica_tick_no_floor(st, now, es, ee, in) ==
  IF event_concluded(st, now, ee) THEN dso_scarica_finish_event
  ELSE IF ~in.read_ok THEN Keep(st)
  ELSE IF now < es
  THEN IF in.soc < soc_threshold_community
       THEN [state |-> "PRE_CHARGE",
             writes |-> << <<1102, 1>>, <<1101, -6000>> >>,
             sets |-> [NoSets EXCEPT !.autoconsumo_enabled = <<FALSE>>]]
       ELSE IF st # "WAIT_EVENT"
       THEN [state |-> "WAIT_EVENT", writes |-> << <<1102, 0>> >>,
             sets |-> [NoSets EXCEPT !.autoconsumo_enabled = <<TRUE>>]]
       ELSE Keep(st)
  ELSE IF es <= now /\ now < ee
  THEN [state |-> "EVENT_ACTIVE",
        writes |-> << <<1102, 3>>, <<1101, 6000>> >>,
        sets |-> [NoSets EXCEPT !.autoconsumo_enabled = <<FALSE>>]]
  ELSE Keep(st)

\* ScaricaForzataDSOUnified.tick; target_soc_high_dec is soc_threshold_community
\* and min_soc_dec is the emergency start_soc_dec (lines 837-841)
dso_scarica_tick(st, now, es, ee, in) ==
  IF event_concluded(st, now, ee) THEN dso_scarica_finish_event
  ELSE IF ~in.read_ok THEN Keep(st)
  ELSE IF now < es
  THEN IF in.soc < soc_threshold_community
       THEN [state |-> "PRE_CHARGE",
             writes |-> << <<1102, 1>>, <<1101, -6000>> >>,
             sets |-> [NoSets EXCEPT !.autoconsumo_enabled = <<FALSE>>]]
       ELSE IF st # "WAIT_EVENT"
       THEN [state |-> "WAIT_EVENT", writes |-> << <<1102, 0>> >>,
             sets |-> [NoSets EXCEPT !.autoconsumo_enabled = <<TRUE>>]]
       ELSE Keep(st)
  ELSE IF es <= now /\ now < ee
  THEN [state |-> "EVENT_ACTIVE",
        writes |-> IF in.soc > emergency_start_soc_dec
                   THEN << <<1102, 3>>, <<1101, 6000>> >>
                   ELSE << <<1101, 0>> >>,
        sets |-> [NoSets EXCEPT !.autoconsumo_enabled = <<FALSE>>]]
  ELSE Keep(st)

\* variant that also writes the mode register at the floor
trading_scarica_tick_floor_mode(st, now, es, ee, in) ==
  IF event_concluded(st, now, ee) THEN trading_scarica_finish_event
  ELSE IF ~in.read_ok THEN Keep(st)
  ELSE IF now < es
  THEN [state |-> "WAIT_EVENT", writes |-> <<>>, sets |-> NoSets]
  ELSE IF es <= now /\ now < ee
  THEN [state |-> "EVENT_ACTIVE",
        writes |-> IF in.soc > partition_soc_dec
                   THEN << <<1102, 3>>, <<1101, 6000>> >>
                   ELSE << <<1102, 3>>, <<1101, 0>> >>,
        sets |-> [NoSets EXCEPT !.autoconsumo_enabled = <<FALSE>>]]
  ELSE Keep(st)

\* TradingScaricaUnified.tick; target_min_soc_dec is the program's
\* partition_soc_dec
trading_scarica_tick(st, now, es, ee, in) ==
  IF event_concluded(st, now, ee) THEN trading_scarica_finish_event
  ELSE IF ~in.read_ok THEN Keep(st)
  ELSE IF now < es
  THEN [state |-> "WAIT_EVENT", writes |-> <<>>, sets |-> NoSets]
  ELSE IF es <= now /\ now < ee
  THEN [state |-> "EVENT_ACTIVE",
        writes |-> IF in.soc > partition_soc_dec
                   THEN << <<1102, 3>>, <<1101, 6000>> >>
                   ELSE << <<1101, 0>> >>,
        sets |-> [NoSets EXCEPT !.autoconsumo_enabled = <<FALSE>>]]
  ELSE Keep(st)

\* TradingCaricaUnified.tick; target_soc_high_dec is the program's
\* partition_soc_dec
trading_carica_tick(st, now, es, ee, in) ==
  IF event_concluded(st, now, ee) THEN trading_carica_finish_event
  ELSE IF ~in.read_ok THEN Keep(st)
  ELSE IF now < es
  THEN [state |-> "WAIT_EVENT", writes |-> <<>>, sets |-> NoSets]
  ELSE IF es <= now /\ now < ee
  THEN IF in.soc < partition_soc_dec
       THEN [state |-> "EVENT_ACTIVE",
             writes |-> << <<1102, 1>>, <<1101, -6000>> >>,
             sets |-> [NoSets EXCEPT !.autoconsumo_enabled = <<FALSE>>]]
       ELSE [state |-> "EVENT_ACTIVE", writes |-> << <<1101, 0>> >>,
             sets |-> NoSets]
  ELSE Keep(st)

service_tick(s, st, now, es, ee, in) ==
  CASE s = "dso_carica" -> dso_carica_tick(st, now, es, ee, in)
    [] s = "dso_scarica" -> dso_scarica_tick(st, now, es, ee, in)
    [] s = "trading_scarica" -> trading_scarica_tick(st, now, es, ee, in)
    [] s = "trading_carica" -> trading_carica_tick(st, now, es, ee, in)

\* SOC values on both sides of the thresholds each service compares with;
\* a tick that finishes the event reads nothing
ServiceSocValues(s) ==
  CASE s = "dso_carica" -> {50, 600}
    [] s = "dso_scarica" -> {50, 600, 950}
    [] s = "trading_scarica" -> {290, 600}
    [] s = "trading_carica" -> {290, 600}

ServiceUnread == [read_ok |-> FALSE, soc |-> 0]

ServiceInputs(s) ==
  {ServiceUnread} \cup
  [read_ok : {TRUE}, soc : ServiceSocValues(s)]

(***************************************************************************)
(* IdeaUnifiedApp: construction and the scheduler loop run_forever         *)
(***************************************************************************)
IndexOf(k) == CHOOSE i \in 1..Len(ORDER) : ORDER[i] = k

\* variant that does not look at next_run
Due_any_time(k, nr, act) == k \in SERVICES => act[k]

\* the test run_forever makes for controller k: now >= next_run[k], and for
\* a scheduled service also its active attribute
Due(k, nr, act) == nr[k] = 0 /\ (k \in SERVICES => act[k])

\* the first controller after position i of the iteration that is ticked,
\* or "sleep" when the iteration is over
NextDue(i, nr, act) ==
  LET later == {j \in (i + 1)..Len(ORDER) : Due(ORDER[j], nr, act)}
  IN IF later = {} THEN "sleep"
     ELSE ORDER[CHOOSE j \in later : \A m \in later : j <= m]

\* The constructors of the four services: a service whose configuration
\* entry is auto and that finds a program for today with valid times ends
\* with active = TRUE and has called set_service_active(TRUE).
ServiceSetups ==
  {w \in [SERVICES -> Windows \cup {NoWindow}] :
     LET on == {s \in SERVICES : w[s] # NoWindow}
     IN /\ Cardinality(on) <= MaxActive
        /\ Cardinality(on) > 1 => \A s \in on : w[s] = <<1, 2>>}

(***************************************************************************)
(* The constructors of the four services, as IdeaUnifiedApp.__init__ calls *)
(* them.  A program is the record of its mode, of whether its days list    *)
(* contains today's ISO date, and of its start and end texts.              *)
(***************************************************************************)
CTOR_ORDER == <<"dso_carica", "dso_scarica", "trading_scarica", "trading_carica">>

\* the position of __init__ before the constructor of each service
CtorPc ==
  [dso_carica |-> "new_dso_carica", dso_scarica |-> "new_dso_scarica",
   trading_scarica |-> "new_trading_scarica",
   trading_carica |-> "new_trading_carica"]

ServiceModes == {"auto", "Auto", "manual"}

\* the services sections: at most MaxActive entries are not manual
ServiceEntries ==
  {sv \in [SERVICES -> ServiceModes] :
     Cardinality({s \in SERVICES : sv[s] # "manual"}) <= MaxActive}

\* str.lower() on the mode texts
lower(m) == IF m = "Auto" THEN "auto" ELSE m

ProgramFamilies == {"dso_programs", "trading_programs"}

\* the list each constructor searches, and the program mode it looks for
Family(s) ==
  IF s \in {"dso_carica", "dso_scarica"} THEN "dso_programs"
  ELSE "trading_programs"

ProgramMode(s) ==
  CASE s = "dso_carica" -> "carica_forzata_dso"
    [] s = "dso_scarica" -> "scarica_forzata_dso"
    [] s = "trading_scarica" -> "partizione_scarica_trading"
    [] s = "trading_carica" -> "partizione_carica_trading"

FamilyModes(fam) == {ProgramMode(s) : s \in {t \in SERVICES : Family(t) = fam}}

\* start texts: a time of day, and an hour that datetime.time() refuses
StartTexts == {"01:00", "25:00"}
EndTexts == {"02:00"}

\* the programs of a list; one of another day has a valid start
Programs(fam) ==
  {p \in [mode : FamilyModes(fam), today : BOOLEAN, start : StartTexts,
          end : EndTexts] : p.today \/ p.start = "01:00"}

ProgramLists(fam) ==
  {<<>>} \cup {<<p>> : p \in Programs(fam)}
         \cup {<<p, q>> : p, q \in Programs(fam)}

\* `h, m = map(int, text.split(":"))` and dtime(hour=h, minute=m): <<>> when
\* it raises, else <<the time on the scale of the wall clock>>
parse_time(text) ==
  CASE text = "01:00" -> <<1>>
    [] text = "02:00" -> <<2>>
    [] OTHER -> <<>>

\* _compute_event_times: <<>> for (None, None), else <<start, end>>
compute_event_times(program) ==
  LET st == parse_time(program.start)
      en == parse_time(program.end)
  IN IF st = <<>> \/ en = <<>> THEN <<>> ELSE <<st[1], en[1]>>

RECURSIVE load_program_for_today(_, _)
\* _load_dso_program_for_today, _load_trading_program_for_today: <<>> for
\* None, else <<the first program of the mode whose days contain today>>
load_program_for_today(progs, mode) ==
  IF progs = <<>> THEN <<>>
  ELSE IF progs[1].mode = mode /\ progs[1].today THEN <<progs[1]>>
  ELSE load_program_for_today(Tail(progs), mode)

Inactive == [active |-> FALSE, window |-> NoWindow, sets |-> NoSets]

\* variant that does not look at the services entry
service_init_any_mode(s, sv, pr) ==
  LET prog == load_program_for_today(pr[Family(s)], ProgramMode(s))
  IN IF prog = <<>> THEN Inactive
     ELSE IF compute_event_times(prog[1]) = <<>> THEN Inactive
     ELSE [active |-> TRUE, window |-> compute_event_times(prog[1]),
           sets |-> [NoSets EXCEPT !.service_active = <<TRUE>>]]

\* __init__ of a scheduled service: whether it ends active, its event
\* window, and its set_service_active call
service_init(s, sv, pr) ==
  LET prog == load_program_for_today(pr[Family(s)], ProgramMode(s))
  IN IF lower(sv[s]) # "auto" THEN Inactive
     ELSE IF prog = <<>> THEN Inactive
     ELSE IF compute_event_times(prog[1]) = <<>> THEN Inactive
     ELSE [active |-> TRUE, window |-> compute_event_times(prog[1]),
           sets |-> [NoSets EXCEPT !.service_active = <<TRUE>>]]

\* a configuration that schedules the services of the setup w: the
\* services entries, and one program of today per scheduled service
SetupServices(w) ==
  [s \in SERVICES |-> IF w[s] # NoWindow THEN "auto" ELSE "manual"]

TimeText(n) == IF n = 1 THEN "01:00" ELSE "02:00"

SetupPrograms(w) ==
  [fam \in ProgramFamilies |->
     LET on == SelectSeq(CTOR_ORDER,
                         LAMBDA s : Family(s) = fam /\ w[s] # NoWindow)
     IN [i \in 1..Len(on) |->
           [mode |-> ProgramMode(on[i]), today |-> TRUE,
            start |-> TimeText(w[on[i]][1]), end |-> TimeText(w[on[i]][2])]]]

InitCore ==
  \E w \in ServiceSetups :
    LET act == [s \in SERVICES |-> w[s] # NoWindow]
        f0 == [DefaultFlags EXCEPT
                 !.service_active = \E s \in SERVICES : act[s]]
    IN /\ file_flags = DefaultFlags
       /\ file_status = "same"
       /\ paths_ok = TRUE
       /\ edits = 0
       /\ services = SetupServices(w)
       /\ programs = SetupPrograms(w)
       /\ flags = f0
       /\ sidecar = sync_flag_files(f0)
       /\ last_values = [r \in {} |-> 0]
       /\ current_setpoint_1101 = param1101_min
       /\ emergency_active = FALSE
       /\ active = act
       /\ state = [s \in SERVICES |-> "INIT"]
       /\ event_start = [s \in SERVICES |-> w[s][1]]
       /\ event_end = [s \in SERVICES |-> w[s][2]]
       /\ reset_attempts = 0
       /\ alarm_active = FALSE
       /\ pc = "cfg_reload"
       /\ next_run = [k \in CONTROLLERS |-> 0]
       /\ since_tick = [k \in CONTROLLERS |-> -1]
       /\ clock = 0
       /\ last = [who |-> "init", in |-> <<>>, writes |-> <<>>,
                  sets |-> NoSets, branch |-> "init"]
       /\ n1103 = 0

\* no controller's ticks are compared
InitApp ==
  /\ InitCore
  /\ watched = "none"
  /\ prev = <<>>

\* what every tick leaves behind in the scheduler: next_run[k] = now +
\* intervals[k], and the iteration moves on to the next due controller
Ticked(k, in, eff, branch) ==
  /\ next_run' = [next_run EXCEPT ![k] = intervals[k]]
  /\ since_tick' = [since_tick EXCEPT ![k] = 0]
  /\ pc' = NextDue(IndexOf(k), next_run', active)
  /\ last' = [who |-> k, in |-> in, writes |-> eff.writes, sets |-> eff.sets,
              branch |-> branch]
  /\ flags' = set_flags(flags, eff.sets)
  /\ sidecar' = set_sidecar(sidecar, eff.sets)
  /\ last_values' = write_register(last_values, eff.writes)
  /\ prev' = IF k = watched
             THEN <<[in |-> in, flags |-> flags, clock |-> clock,
                     writes |-> eff.writes]>>
             ELSE prev
  /\ n1103' = IF k # "reset" THEN n1103
              ELSE IF in.read_ok /\ in.stato = 2 THEN 0
              ELSE n1103 + Cardinality({i \in 1..Len(eff.writes) :
                                          eff.writes[i][1] = 1103})
  /\ UNCHANGED <<clock, file_flags, file_status, paths_ok, edits, services,
                 programs, watched>>

\* cfg.reload_if_changed() with the file unchanged or rewritten as a JSON
\* object: _load replaces self.data, flags included, then sync_flag_files
reload_if_changed(f, ff, status) == IF status = "same" THEN f ELSE ff

CfgReloadTick ==
  /\ pc = "cfg_reload"
  /\ file_status \in {"same", "changed", "no_paths"}
  /\ flags' = reload_if_changed(flags, file_flags, file_status)
  /\ sidecar' = IF file_status = "same" THEN sidecar
                ELSE sync_flag_files(flags')
  /\ paths_ok' = IF file_status = "same" THEN paths_ok
                 ELSE file_status = "changed"
  /\ file_status' = "same"
  /\ next_run' = [next_run EXCEPT !["cfg_reload"] = intervals["cfg_reload"]]
  /\ since_tick' = [since_tick EXCEPT !["cfg_reload"] = 0]
  /\ pc' = NextDue(IndexOf("cfg_reload"), next_run', active)
  /\ last' = [who |-> "cfg_reload", in |-> <<>>, writes |-> <<>>,
              sets |-> NoSets, branch |-> file_status]
  /\ UNCHANGED <<clock, file_flags, edits, services, programs, toiVars,
                 ctlVars, obsVars, srvVars>>

\* the controller's tick gets as far as cfg.path(...): SelfConsumption
\* returns before it when paused, every other tick asks for a path first
\* (the services for "from_local", or for "toidea" when they finish)
AsksPath(k) == k = "autocons" => flags.autoconsumo_enabled

AutoconsStep(inputs) ==
  /\ pc = "autocons"
  /\ paths_ok \/ ~AsksPath("autocons")
  /\ \E in \in IF flags.autoconsumo_enabled THEN inputs
               ELSE {AutoconsUnread} :
       LET eff == autocons_tick(current_setpoint_1101, flags, in)
       IN /\ Ticked("autocons", in, eff, eff.branch)
          /\ current_setpoint_1101' = eff.setpoint
  /\ UNCHANGED <<emergency_active, active, state, event_start, event_end,
                 reset_attempts, alarm_active>>

\* the controller process alone: the commands go to ToiDea.xml unobserved
AutoconsTick == AutoconsStep(AutoconsInputs) /\ UNCHANGED srvVars

BattStep(inputs) ==
  /\ pc = "batt"
  /\ paths_ok
  /\ \E in \in inputs :
       LET eff == battery_tick(emergency_active, last_values, flags, in)
       IN /\ Ticked("batt", in, eff, eff.branch)
          /\ emergency_active' = eff.emergency_active
  /\ UNCHANGED <<current_setpoint_1101, active, state, event_start, event_end,
                 reset_attempts, alarm_active>>

BattTick == BattStep(BattInputs) /\ UNCHANGED srvVars

\* the watchdog's tick with the values of 1070 the machine shows in this
\* run; the branch recorded is alarm_active before the tick
ResetStep(inputs) ==
  /\ pc = "reset"
  /\ paths_ok
  /\ \E in \in inputs :
       LET eff == reset_tick(reset_attempts, alarm_active, in)
       IN /\ Ticked("reset", in, eff, IF alarm_active THEN "alarm" ELSE "watch")
          /\ reset_attempts' = eff.reset_attempts
          /\ alarm_active' = eff.alarm_active
  /\ UNCHANGED <<current_setpoint_1101, emergency_active, active, state,
                 event_start, event_end>>

ResetTickOn(inputs) == ResetStep(inputs) /\ UNCHANGED srvVars

\* a machine that stays operative (2) or in an unhandled state (3)
ResetTick == ResetTickOn(ResetInputs)

\* a machine that also shows the states 0 and 1 the watchdog resets
WatchdogTick == ResetTickOn(WatchdogInputs)

ServiceStep(s, inputs) ==
  /\ pc = s
  /\ paths_ok
  /\ \E in \in IF event_concluded(state[s], clock, event_end[s])
               THEN {ServiceUnread} ELSE inputs :
       LET eff == service_tick(s, state[s], clock, event_start[s],
                               event_end[s], in)
       IN /\ Ticked(s, in, eff, state[s])
          /\ state' = [state EXCEPT ![s] = eff.state]
  /\ UNCHANGED <<current_setpoint_1101, emergency_active, active,
                 event_start, event_end, reset_attempts, alarm_active,
                 srvVars>>

ServiceTick(s) == ServiceStep(s, ServiceInputs(s))

DsoCaricaTick == ServiceTick("dso_carica")
DsoScaricaTick == ServiceTick("dso_scarica")
TradingScaricaTick == ServiceTick("trading_scarica")
TradingCaricaTick == ServiceTick("trading_carica")

\* the longest of the intervals
MaxInterval == intervals["reset"]

\* time.sleep(0.1) and the next `now = time.time()`: d half-seconds have
\* passed, d being one of advs, and the wall clock has or has not reached
\* its next value
SleepStep(advs) ==
  /\ pc = "sleep"
  /\ \E d \in advs, dc \in {0, 1} :
       /\ clock + dc <= MaxClock
       /\ clock' = clock + dc
       /\ next_run' = [k \in CONTROLLERS |-> Max2(0, next_run[k] - d)]
       /\ since_tick' = [k \in CONTROLLERS |->
                           IF since_tick[k] < 0 THEN -1
                           ELSE IF since_tick[k] + d > MaxInterval
                           THEN MaxInterval ELSE since_tick[k] + d]
       /\ pc' = NextDue(0, next_run', active)
       /\ last' = [who |-> "sleep", in |-> <<>>, writes |-> <<>>,
                   sets |-> NoSets, branch |-> "sleep"]
  /\ UNCHANGED <<cfgVars, toiVars, ctlVars, obsVars, srvVars>>

Sleep == SleepStep(Advances)

\* the finally clause of run_forever: cfg.set_service_active(False)
shutdown_sets == [NoSets EXCEPT !.service_active = <<FALSE>>]

\* run_forever is left: its local next_run is gone
Stopped ==
  /\ pc' = "stopped"
  /\ next_run' = [k \in CONTROLLERS |-> 0]
  /\ since_tick' = [k \in CONTROLLERS |-> -1]

Finally(why) ==
  /\ flags' = set_flags(flags, shutdown_sets)
  /\ sidecar' = set_sidecar(sidecar, shutdown_sets)
  /\ Stopped
  /\ last' = [who |-> "shutdown", in |-> <<>>, writes |-> <<>>,
              sets |-> shutdown_sets, branch |-> why]
  /\ UNCHANGED <<file_flags, file_status, paths_ok, edits, services, programs,
                 toiVars, ctlVars, obsVars, clock, srvVars>>

\* Ctrl-C while the loop runs
KeyboardInterrupt ==
  /\ pc # "stopped"
  /\ Finally("KeyboardInterrupt")

\* cfg.reload_if_changed() finds a file that is not JSON: json.load raises in
\* _load before self.data is assigned, nothing catches it in run_forever,
\* the finally clause runs
CfgReloadRaises ==
  /\ pc = "cfg_reload"
  /\ file_status = "broken"
  /\ Finally("JSONDecodeError")

\* cfg.reload_if_changed() finds JSON that is not an object (a list, say):
\* _load assigns it to self.data and self.data.get raises AttributeError;
\* in the finally clause set_service_active calls self.data.setdefault, which
\* raises again before the flag is stored or its mirror file written.  The
\* flags keep the values the mirror files still show.
CfgReloadNotObject ==
  /\ pc = "cfg_reload"
  /\ file_status = "not_object"
  /\ Stopped
  /\ last' = [who |-> "shutdown", in |-> <<>>, writes |-> <<>>,
              sets |-> NoSets, branch |-> "AttributeError"]
  /\ UNCHANGED <<cfgVars, toiVars, ctlVars, obsVars, clock, srvVars>>

\* a tick asks cfg.path() for an entry the reloaded configuration does not
\* have: KeyError leaves the tick before it has done anything, nothing
\* catches it in run_forever, the finally clause runs
ControllerTickRaises ==
  /\ pc \in CONTROLLERS \ {"cfg_reload"}
  /\ ~paths_ok
  /\ AsksPath(pc)
  /\ Finally("KeyError")

\* an external editor rewrites the JSON configuration file
EditConfig ==
  /\ pc = "sleep"
  /\ edits < MaxEdits
  /\ edits' = edits + 1
  /\ file_status' \in EditKinds
  /\ file_flags' \in FileFlagSets
  /\ UNCHANGED <<flags, sidecar, paths_ok, services, programs, toiVars,
                 ctlVars, obsVars, schedVars, srvVars>>

NextApp ==
  \/ CfgReloadTick
  \/ AutoconsTick
  \/ BattTick
  \/ ResetTick
  \/ DsoCaricaTick
  \/ DsoScaricaTick
  \/ TradingScaricaTick
  \/ TradingCaricaTick
  \/ Sleep
  \/ KeyboardInterrupt
  \/ CfgReloadRaises
  \/ CfgReloadNotObject
  \/ ControllerTickRaises
  \/ EditConfig

\* the standalone scripts as their constructors leave them, beside a
\* ToiDea.xml with VAL 0 and the flag files of a quiet system
LegacyIdle ==
  /\ legacy = [emergency_active |-> FALSE, toidea_val |-> 0,
               guardrail |-> "AUTOCONSUMO=1",
               reset_attempts |-> 0, alarm_active |-> FALSE,
               alarm_file |-> "MACCHINA OK"]
  /\ legacy_last = [who |-> "init", in |-> <<>>, writes |-> <<>>,
                    sets |-> NoSets, branch |-> "init"]

\* the read loop of the bus server has not begun: nothing configured is
\* looked at, nothing was read, FromiDea.xml has no register element
ReadIdle ==
  /\ read_blocks = <<>>
  /\ read_max_chunk = 4
  /\ r_pc = "plan"
  /\ chunks = <<>>
  /\ r_k = 1
  /\ r_cur = 0
  /\ values = <<>>
  /\ LAST_OK = <<>>
  /\ any_ok = FALSE
  /\ snapshot = <<>>
  /\ last_good = <<>>
  /\ unreadable = {}
  /\ cycles = 0

\* the bus server does not run in this specification
ServerIdle ==
  /\ ReadIdle
  /\ LegacyIdle
  /\ TO_FILE = <<>>
  /\ PENDING_CMD = <<>>
  /\ LAST_TOIDEA_ID = ""
  /\ w_pc = "poll"
  /\ w_cmd = <<>>
  /\ io_pc = "take"
  /\ io_cmd = <<>>
  /\ executed = <<>>
  /\ overwritten = {}
  /\ nseq = 0
  /\ t_now = 0
  /\ FOREIGN_TIMES = <<>>
  /\ FOREIGN_FRAMES_TOTAL = 0
  /\ FOREIGN_ALERT = 0
  /\ FOREIGN_LAST_ISO = <<>>
  /\ FROM_FILE = <<>>
  /\ events = <<>>
  /\ cycle_start = 0
  /\ io_attempts = 0
  /\ io_ok = FALSE
  /\ io_fault = FALSE
  /\ io_commit = "none"
  /\ write_ok = 0
  /\ write_err = 0
  /\ LAST_WRITER_ID = ""
  /\ current_id = 0
  /\ tx = <<>>
  /\ issued = <<>>
  /\ file_lost = {}

Init == InitApp /\ ServerIdle
Next == NextApp
Spec == Init /\ [][Next]_vars

\* The controller beside a machine that goes to sleep or into error: the
\* configuration schedules no service, and the watchdog reads every value
\* of 1070.
InitWatchdog ==
  /\ InitApp
  /\ \A s \in SERVICES : ~active[s]
  /\ ServerIdle

NextWatchdog ==
  \/ CfgReloadTick
  \/ AutoconsTick
  \/ BattTick
  \/ WatchdogTick
  \/ Sleep
  \/ KeyboardInterrupt
  \/ CfgReloadRaises
  \/ CfgReloadNotObject
  \/ ControllerTickRaises
  \/ EditConfig

SpecWatchdog == InitWatchdog /\ [][NextWatchdog]_vars

\* The controller in a run in which the configuration file is not edited and
\* nobody interrupts the loop; the configuration schedules at most one
\* service, and the consecutive ticks of one controller are compared.
InitSteady ==
  /\ InitCore
  /\ Cardinality({s \in SERVICES : active[s]}) <= 1
  /\ watched \in CONTROLLERS \ {"cfg_reload"}
  /\ \A s \in SERVICES : active[s] <=> watched = s
  /\ prev = <<>>
  /\ ServerIdle

NextSteady ==
  \/ CfgReloadTick
  \/ AutoconsTick
  \/ BattTick
  \/ ResetTick
  \/ DsoCaricaTick
  \/ DsoScaricaTick
  \/ TradingScaricaTick
  \/ TradingCaricaTick
  \/ Sleep

SpecSteady == InitSteady /\ [][NextSteady]_vars

(***************************************************************************)
(* The bus server (idea_server.py): toidea_watcher and io_worker are two   *)
(* threads that share PENDING_CMD under CMD_LOCK.  A command file is the   *)
(* record of its ID, CMD, IND and VAL texts; ok says that IND and VAL are  *)
(* integers.  seq numbers the files in the order they were written; the    *)
(* server never reads it.  PENDING_CMD is <<>> for None, else the sequence *)
(* of the commands the slot holds.                                         *)
(***************************************************************************)
FileIds == {"1", "2"}
FileCmds == {"07", "09", "XX"}

FileVals == {6000, -6000}

CommandFiles(n) ==
  [ID : FileIds, CMD : FileCmds, IND : {1101}, VAL : FileVals,
   ok : BOOLEAN, seq : {n}]

Seqs(q) == {q[i].seq : i \in 1..Len(q)}

\* variant that queues the new command behind the pending one
post_append(slot, cmd) == Append(slot, cmd)

\* `PENDING_CMD = {...}` under CMD_LOCK: the new command replaces the slot
post(slot, cmd) == <<cmd>>

\* `cmd = PENDING_CMD; PENDING_CMD = None` under CMD_LOCK: what is left
take_rest(slot) == <<>>

\* a controller (ToiDeaManager.write_register, or a standalone script)
\* rewrites ToiDea.xml
WriteToiDea ==
  /\ nseq < MaxCmds
  /\ nseq' = nseq + 1
  /\ \E f \in CommandFiles(nseq + 1) : TO_FILE' = <<f>>
  /\ UNCHANGED <<appVars, wrVars, busVars, rdVars, legVars,
                 fgnVars, PENDING_CMD, LAST_TOIDEA_ID, w_pc, w_cmd, io_pc,
                 io_cmd, executed, overwritten>>

\* toidea_watcher, from the top of the loop to the CMD test: the file has a
\* new ID; int() of IND or VAL raises (the except branch sleeps), or CMD is
\* unknown (the ID is recorded), or the command is built
WatcherPoll ==
  /\ w_pc = "poll"
  /\ TO_FILE # <<>>
  /\ TO_FILE[1].ID # LAST_TOIDEA_ID
  /\ LET f == TO_FILE[1]
     IN IF ~f.ok
        THEN /\ w_pc' = "except"
             /\ UNCHANGED <<LAST_TOIDEA_ID, w_cmd>>
        ELSE IF f.CMD \notin {"07", "09"}
        THEN /\ LAST_TOIDEA_ID' = f.ID
             /\ UNCHANGED <<w_pc, w_cmd>>
        ELSE /\ w_cmd' = <<[ID |-> f.ID, CMD |-> f.CMD, IND |-> f.IND,
                             VAL |-> f.VAL, seq |-> f.seq]>>
             /\ w_pc' = "post"
             /\ UNCHANGED LAST_TOIDEA_ID
  /\ UNCHANGED <<appVars, wrVars, busVars, rdVars, legVars,
                 fgnVars, TO_FILE, PENDING_CMD, io_pc, io_cmd, executed,
                 overwritten, nseq>>

\* the except branch of toidea_watcher: log, sleep, next round
WatcherExcept ==
  /\ w_pc = "except"
  /\ w_pc' = "poll"
  /\ UNCHANGED <<appVars, wrVars, busVars, rdVars, legVars,
                 fgnVars, TO_FILE, PENDING_CMD, LAST_TOIDEA_ID, w_cmd, io_pc,
                 io_cmd, executed, overwritten, nseq>>

\* `with CMD_LOCK: PENDING_CMD = {...}`
WatcherPost ==
  /\ w_pc = "post"
  /\ PENDING_CMD' = post(PENDING_CMD, w_cmd[1])
  /\ overwritten' = overwritten \cup (Seqs(PENDING_CMD) \ Seqs(PENDING_CMD'))
  /\ w_pc' = "mark"
  /\ UNCHANGED <<appVars, wrVars, busVars, rdVars, legVars,
                 fgnVars, TO_FILE, LAST_TOIDEA_ID, w_cmd, io_pc, io_cmd,
                 executed, nseq>>

\* `LAST_TOIDEA_ID = cid`
WatcherMark ==
  /\ w_pc = "mark"
  /\ LAST_TOIDEA_ID' = w_cmd[1].ID
  /\ w_cmd' = <<>>
  /\ w_pc' = "poll"
  /\ UNCHANGED <<appVars, wrVars, busVars, rdVars, legVars,
                 fgnVars, TO_FILE, PENDING_CMD, io_pc, io_cmd, executed,
                 overwritten, nseq>>

\* io_worker, step 1: under CMD_LOCK the pending command is taken and the
\* slot is cleared; `attempts, ok = 0, False`
IoTake ==
  /\ io_pc = "take"
  /\ PENDING_CMD # <<>>
  /\ io_cmd' = <<PENDING_CMD[Len(PENDING_CMD)]>>
  /\ PENDING_CMD' = take_rest(PENDING_CMD)
  /\ io_pc' = "write"
  /\ io_attempts' = 0
  /\ io_ok' = FALSE
  /\ io_fault' = FALSE
  /\ io_commit' = "none"
  /\ UNCHANGED <<appVars, busVars, rdVars, legVars, fgnVars, TO_FILE, LAST_TOIDEA_ID, w_pc,
                 w_cmd, executed, overwritten, nseq, write_ok, write_err,
                 LAST_WRITER_ID>>

\* SerialBus.write_reg: instrument.write_register(..., signed=False) packs
\* the value as an unsigned 16-bit word and raises ValueError, before
\* anything is sent, for a value outside 0..65535; else the frame is sent
\* and the bus answers, stays silent, or answers with a function code of
\* another master
write_reg(val) ==
  IF val < 0 \/ val > 65535 THEN {"ValueError"}
  ELSE {"ok", "NoResponse", "functioncode"}

\* the read-back of verify_writes: `int(rb[0]) == int(cmd["VAL"])`, where
\* rb[0] is the register as an unsigned word (TRUE and FALSE), or the read
\* raises (FALSE)
read_back(val) == IF val < 0 \/ val > 65535 THEN {FALSE} ELSE BOOLEAN

\* variant that makes one attempt more
loop_continues_once_more(a, ok) == a <= write_retries /\ ~ok

\* `while attempts < w_retries and not ok`
loop_continues(a, ok) == a < write_retries /\ ~ok

RECURSIVE popleft_old(_, _)
\* `while FOREIGN_TIMES and t - FOREIGN_TIMES[0] > window: popleft()`
popleft_old(q, t) ==
  IF q # <<>> /\ t - q[1] > foreign_window_s THEN popleft_old(Tail(q), t)
  ELSE q

\* variant that raises the alert only above the threshold
alert_above_threshold(q) == IF Len(q) > foreign_threshold THEN 1 ELSE 0

\* `FOREIGN_ALERT = 1 if len(FOREIGN_TIMES) >= foreign_threshold else 0`
alert_of(q) == IF Len(q) >= foreign_threshold THEN 1 ELSE 0

\* note_foreign(): the deque of the times, the total and the alert
note_foreign ==
  /\ Len(events) < MaxForeign
  /\ FOREIGN_TIMES' = popleft_old(Append(FOREIGN_TIMES, t_now), t_now)
  /\ FOREIGN_FRAMES_TOTAL' = FOREIGN_FRAMES_TOTAL + 1
  /\ FOREIGN_LAST_ISO' = <<t_now>>
  /\ FOREIGN_ALERT' = alert_of(FOREIGN_TIMES')
  /\ events' = Append(events, t_now)

\* `cmd["CMD"] == "09" and commit_reg > 0`
with_commit(cmd) == cmd.CMD = "09" /\ writer_commit_register > 0

\* io_worker, one round of the write loop: write_reg of the command, then
\* write_reg of the commit register for a write-with-commit; when either
\* raises, note_foreign() for a function-code error and the read-back of
\* cmd["IND"]
IoAttempt ==
  /\ io_pc = "write"
  /\ loop_continues(io_attempts, io_ok)
  /\ io_attempts' = io_attempts + 1
  /\ \E r \in write_reg(io_cmd[1].VAL) :
     \E c \in IF r = "ok" /\ with_commit(io_cmd[1])
              THEN write_reg(writer_commit_value) ELSE {"none"} :
       LET raised == IF r # "ok" THEN r
                     ELSE IF c \in {"ok", "none"} THEN "no" ELSE c
       IN /\ io_commit' = (IF c \in {"ok", "none"} THEN c ELSE "failed")
          /\ IF raised = "no" THEN io_ok' = TRUE
             ELSE \E rb \in read_back(io_cmd[1].VAL) : io_ok' = rb
          /\ io_fault' = (io_fault \/ raised \in {"NoResponse", "functioncode"})
          /\ IF raised = "functioncode"
             THEN /\ note_foreign
                  /\ UNCHANGED <<t_now, FROM_FILE, cycle_start>>
             ELSE UNCHANGED fgnVars
  /\ UNCHANGED <<appVars, busVars, rdVars, legVars, TO_FILE, PENDING_CMD, LAST_TOIDEA_ID, w_pc,
                 w_cmd, io_pc, io_cmd, executed, overwritten, nseq, write_ok,
                 write_err, LAST_WRITER_ID>>

\* io_worker, after the write loop: the command is counted as write_ok or
\* as write_err, and it is dropped either way
IoWrite ==
  /\ io_pc = "write"
  /\ ~loop_continues(io_attempts, io_ok)
  /\ executed' = Append(executed, [seq |-> io_cmd[1].seq, ok |-> io_ok,
                                    VAL |-> io_cmd[1].VAL,
                                    fault |-> io_fault])
  /\ write_ok' = IF io_ok THEN write_ok + 1 ELSE write_ok
  /\ write_err' = IF io_ok THEN write_err ELSE write_err + 1
  /\ LAST_WRITER_ID' = IF io_ok THEN io_cmd[1].ID ELSE LAST_WRITER_ID
  /\ io_cmd' = <<>>
  /\ io_pc' = "take"
  /\ io_commit' = "none"
  /\ UNCHANGED <<appVars, busVars, rdVars, legVars, fgnVars, TO_FILE, PENDING_CMD,
                 LAST_TOIDEA_ID, w_pc, w_cmd, overwritten, nseq, io_attempts,
                 io_ok, io_fault>>

NextServer ==
  \/ WriteToiDea
  \/ WatcherPoll
  \/ WatcherExcept
  \/ WatcherPost
  \/ WatcherMark
  \/ IoTake
  \/ IoAttempt
  \/ IoWrite

\* the server runs beside a controller that schedules no service
InitServer ==
  /\ InitApp
  /\ \A s \in SERVICES : ~active[s]
  /\ ServerIdle

SpecServer == InitServer /\ [][NextServer]_vars

(***************************************************************************)
(* The bus server, foreign-master detection: note_foreign keeps the times  *)
(* of the last "wrong function code" errors in the deque FOREIGN_TIMES and *)
(* write_fromidea publishes FOREIGN_ALERT and FOREIGN_FRAMES_TOTAL in the  *)
(* meta section of FromiDea.xml.  One polling cycle of io_worker is the    *)
(* path take -> read -> published or failed -> take.  The deque's maxlen   *)
(* of 100 is never reached, since MaxForeign < 100.                        *)
(***************************************************************************)
\* io_worker finds no pending command and goes on to the reads: a new
\* polling cycle
IoNoCommand ==
  /\ io_pc = "take"
  /\ PENDING_CMD = <<>>
  /\ io_pc' = "read"
  /\ cycle_start' = Len(events)
  /\ UNCHANGED <<appVars, wrVars, busVars, rdVars, legVars,
                 TO_FILE, PENDING_CMD, LAST_TOIDEA_ID, w_pc, w_cmd,
                 io_cmd, executed, overwritten, nseq, t_now, FOREIGN_TIMES,
                 FOREIGN_FRAMES_TOTAL, FOREIGN_ALERT, FOREIGN_LAST_ISO,
                 FROM_FILE, events>>

\* a read of the cycle raises an error that names the function code:
\* note_foreign()
IoReadForeign ==
  /\ io_pc = "read"
  /\ note_foreign
  /\ UNCHANGED <<appVars, wrVars, busVars, rdVars, legVars, TO_FILE, PENDING_CMD,
                 LAST_TOIDEA_ID, w_pc, w_cmd, io_pc, io_cmd, executed,
                 overwritten, nseq, t_now, FROM_FILE, cycle_start>>

\* a read of the cycle gets no answer: the serial timeout and
\* time.sleep(back_ms / 1000.0) pass before the next attempt
IoReadWait ==
  /\ io_pc = "read"
  /\ t_now < MaxTime
  /\ t_now' = t_now + 1
  /\ UNCHANGED <<appVars, wrVars, busVars, rdVars, legVars,
                 TO_FILE, PENDING_CMD, LAST_TOIDEA_ID, w_pc, w_cmd,
                 io_pc, io_cmd, executed, overwritten, nseq, FOREIGN_TIMES,
                 FOREIGN_FRAMES_TOTAL, FOREIGN_ALERT, FOREIGN_LAST_ISO,
                 FROM_FILE, events, cycle_start>>

\* write_fromidea: the meta section of the snapshot that replaces
\* FromiDea.xml
IoPublish ==
  /\ io_pc = "read"
  /\ FROM_FILE' =
       <<[TS_ISO |-> t_now,
          FOREIGN_FRAMES_TOTAL |-> FOREIGN_FRAMES_TOTAL,
          FOREIGN_ALERT |-> IF FOREIGN_ALERT # 0 THEN "1" ELSE "0",
          FOREIGN_LAST_ISO |-> FOREIGN_LAST_ISO]>>
  /\ io_pc' = "published"
  /\ UNCHANGED <<appVars, wrVars, busVars, rdVars, legVars,
                 TO_FILE, PENDING_CMD, LAST_TOIDEA_ID, w_pc, w_cmd,
                 io_cmd, executed, overwritten, nseq, t_now, FOREIGN_TIMES,
                 FOREIGN_FRAMES_TOTAL, FOREIGN_ALERT, FOREIGN_LAST_ISO,
                 events, cycle_start>>

\* the cycle ends in one of the except clauses of io_worker (a
\* SerialException, or write_fromidea raising) before the snapshot is
\* replaced
IoWorkerExcept ==
  /\ io_pc = "read"
  /\ io_pc' = "failed"
  /\ UNCHANGED <<appVars, wrVars, busVars, rdVars, legVars,
                 TO_FILE, PENDING_CMD, LAST_TOIDEA_ID, w_pc, w_cmd,
                 io_cmd, executed, overwritten, nseq, fgnVars>>

\* the sleep of poll_ms that ends the cycle: less than a time step, or one
IoSleep ==
  /\ io_pc \in {"published", "failed"}
  /\ \E d \in {0, 1} :
       /\ t_now + d <= MaxTime
       /\ t_now' = t_now + d
  /\ io_pc' = "take"
  /\ UNCHANGED <<appVars, wrVars, busVars, rdVars, legVars,
                 TO_FILE, PENDING_CMD, LAST_TOIDEA_ID, w_pc, w_cmd,
                 io_cmd, executed, overwritten, nseq, FOREIGN_TIMES,
                 FOREIGN_FRAMES_TOTAL, FOREIGN_ALERT, FOREIGN_LAST_ISO,
                 FROM_FILE, events, cycle_start>>

NextForeign ==
  \/ IoNoCommand
  \/ IoReadForeign
  \/ IoReadWait
  \/ IoPublish
  \/ IoWorkerExcept
  \/ IoSleep

\* the worker thread alone: no controller posts a command
SpecForeign == InitServer /\ [][NextForeign]_vars

(***************************************************************************)
(* The controller process beside the bus server.  A tick makes its         *)
(* write_register calls one after the other; each rewrites ToiDea.xml, and *)
(* the watcher and the worker threads of the server run at any moment in   *)
(* between.  Nothing synchronises the two processes.                       *)
(***************************************************************************)
\* variant whose IDs never start again
next_id_no_wrap(cur) == cur + 1

\* `self.current_id += 1; if self.current_id >= 6000: self.current_id = 0`
next_id(cur) == IF cur + 1 >= id_wrap THEN 0 ELSE cur + 1

\* a manager that has just been built, and one that has issued 5998 commands
StartIds == {0, 5998}

\* ToiDea.xml before the first command: the file write_register parses
TemplateFile ==
  [ID |-> "", CMD |-> "07", IND |-> 0, VAL |-> 0, ok |-> TRUE, seq |-> 0]

\* the command files the server has read: the watcher holds them, or they
\* are or were in the inbox
Consumed ==
  Seqs(w_cmd) \cup Seqs(PENDING_CMD) \cup overwritten \cup Seqs(io_cmd)
    \cup Seqs(executed)

\* the commands that wait unconsumed: in the file and not read yet, in the
\* watcher's hands, or in the inbox
PendingSeqs ==
  {q \in Seqs(TO_FILE) : q > 0 /\ q \notin Consumed}
    \cup Seqs(w_cmd) \cup Seqs(PENDING_CMD)

\* the tick has decided its writes: they are made one at a time
Submit ==
  /\ tx = <<>>
  /\ nseq + Len(last'.writes) <= MaxWrites
  /\ tx' = last'.writes
  /\ UNCHANGED <<TO_FILE, PENDING_CMD, LAST_TOIDEA_ID, w_pc, w_cmd, io_pc,
                 io_cmd, executed, overwritten, nseq, fgnVars, wrVars,
                 rdVars, legVars, current_id, issued, file_lost>>

\* a failed read, and a node that draws from the grid
BusAutoconsInputs ==
  {AutoconsUnread,
   [read_ok |-> TRUE, soc |-> 600, v1090 |-> 4800, remote1090 |-> 0]}

\* a failed read, and the entry condition of the emergency charge
BusBattInputs ==
  {[read_ok |-> FALSE, soc |-> 0, ibat |-> 0, v1090 |-> 0],
   [read_ok |-> TRUE, soc |-> 50, ibat |-> 300, v1090 |-> 4800]}

BusCfgReloadTick == tx = <<>> /\ CfgReloadTick
BusAutoconsTick == AutoconsStep(BusAutoconsInputs) /\ Submit
BusBattTick == BattStep(BusBattInputs) /\ Submit
BusResetTick == ResetStep(ResetInputs) /\ Submit

\* the run is shorter than one step of the wall clock
BusSleep == tx = <<>> /\ Sleep /\ clock' = clock

\* ToiDeaManager.write_register, the file: the next ID, IND and VAL go into
\* the parsed file, which is written back; CMD stays as it was
ToiDeaWrite ==
  /\ tx # <<>>
  /\ current_id' = next_id(current_id)
  /\ nseq' = nseq + 1
  /\ TO_FILE' = <<[ID |-> ToString(current_id'), CMD |-> TO_FILE[1].CMD,
                   IND |-> tx[1][1], VAL |-> tx[1][2], ok |-> TRUE,
                   seq |-> nseq + 1]>>
  /\ tx' = Tail(tx)
  /\ issued' = Append(issued, [who |-> last.who, more |-> Len(tx) > 1])
  /\ file_lost' = file_lost \cup
                    {q \in Seqs(TO_FILE) : q > 0 /\ q \notin Consumed}
  /\ UNCHANGED <<appVars, fgnVars, wrVars, rdVars, legVars, PENDING_CMD,
                 LAST_TOIDEA_ID, w_pc, w_cmd, io_pc, io_cmd, executed,
                 overwritten>>

InitBus ==
  /\ InitApp
  /\ \A s \in SERVICES : ~active[s]
  /\ PENDING_CMD = <<>>
  /\ LAST_TOIDEA_ID = ""
  /\ w_pc = "poll"
  /\ w_cmd = <<>>
  /\ io_pc = "take"
  /\ io_cmd = <<>>
  /\ executed = <<>>
  /\ overwritten = {}
  /\ nseq = 0
  /\ t_now = 0
  /\ FOREIGN_TIMES = <<>>
  /\ FOREIGN_FRAMES_TOTAL = 0
  /\ FOREIGN_ALERT = 0
  /\ FOREIGN_LAST_ISO = <<>>
  /\ FROM_FILE = <<>>
  /\ events = <<>>
  /\ cycle_start = 0
  /\ io_attempts = 0
  /\ io_ok = FALSE
  /\ io_fault = FALSE
  /\ io_commit = "none"
  /\ write_ok = 0
  /\ write_err = 0
  /\ LAST_WRITER_ID = ""
  /\ tx = <<>>
  /\ issued = <<>>
  /\ file_lost = {}
  /\ TO_FILE = <<TemplateFile>>
  /\ current_id \in StartIds
  /\ ReadIdle
  /\ LegacyIdle

NextBus ==
  \/ BusCfgReloadTick
  \/ BusAutoconsTick
  \/ BusBattTick
  \/ BusResetTick
  \/ BusSleep
  \/ ToiDeaWrite
  \/ WatcherPoll
  \/ WatcherPost
  \/ WatcherMark
  \/ IoTake
  \/ IoAttempt
  \/ IoWrite

SpecBus == InitBus /\ [][NextBus]_vars

(***************************************************************************)
(* Properties                                                              *)
(***************************************************************************)
\* the services run_forever finds with active = True
ActiveServices == {s \in SERVICES : active[s]}

\* the last step was the tick in which service s went to DONE
Completed(s) == last.who = s /\ last.branch # "DONE" /\ state[s] = "DONE"

\* service s is in its pre-phase or in its event
InPhase(s) == state[s] \in {"PRE_DISCHARGE", "PRE_CHARGE", "EVENT_ACTIVE"}

\* C1: in every reachable state at most one of the four scheduled services
\* has active = true, whatever the configuration schedules for today.
C1_AtMostOneServiceActive == Cardinality(ActiveServices) <= 1

\* C2: at the end of every scheduler iteration service_active is true if and
\* only if exactly one service has active = true, except in the iteration in
\* which a service completes.  Stated for the runs in which the configuration
\* schedules at most one service and the file is never edited.
C2_ServiceFlagIffOneActive ==
  (/\ pc = "sleep"
   /\ edits = 0
   /\ Cardinality(ActiveServices) <= 1
   /\ ~\E s \in SERVICES : Completed(s))
  => (flags.service_active <=> Cardinality(ActiveServices) = 1)

\* C3: while emergency_active is true, autoconsumo_enabled is false.
C3_EmergencyKeepsAutoconsumoOff ==
  emergency_active => ~flags.autoconsumo_enabled

\* C4: every 1101 value the battery controller writes while the emergency
\* charge is on lies in [guardrail_1101_min, emergency_1101_max].
C4_EmergencyWritesWithinLimits ==
  (last.who = "batt" /\ last.branch \in {"enter", "regulate"})
  => \A v \in WritesTo(last.writes, 1101) :
       guardrail_1101_min <= v /\ v <= emergency_1101_max

\* C5: every 1101 value the self-consumption controller writes, in the local
\* and in the community branch, lies in [param1101_min, param1101_max].
C5_SelfConsumptionWritesWithinRange ==
  last.who = "autocons"
  => \A i \in 1..Len(last.writes) :
       /\ last.writes[i][1] = 1101
       /\ param1101_min <= last.writes[i][2]
       /\ last.writes[i][2] <= param1101_max

\* a community tick that writes the upper limit and leaves the setpoint there
C5_Witness ==
  /\ last.who = "autocons"
  /\ last.branch = "community"
  /\ last.in.v1090 = 5000
  /\ last.writes = << <<1101, param1101_max>> >>
  /\ current_setpoint_1101 = param1101_max

\* C6: the inbox never holds more than one command; a command that was
\* replaced in the inbox before the worker took one is never taken nor
\* executed; a taken command is no longer in the inbox, and no command is
\* executed twice.
C6_InboxLatestWins ==
  /\ Len(PENDING_CMD) <= 1
  /\ \A c \in overwritten : c \notin Seqs(executed) /\ c \notin Seqs(io_cmd)
  /\ Seqs(io_cmd) \cap Seqs(PENDING_CMD) = {}
  /\ Seqs(io_cmd) \cap Seqs(executed) = {}
  /\ \A i, j \in 1..Len(executed) :
       executed[i].seq = executed[j].seq => i = j

\* c1 was replaced by c2 in the inbox, the worker has taken and executed c2,
\* and a third command is pending
C6_Witness ==
  /\ overwritten = {1}
  /\ Seqs(executed) = {2}
  /\ Seqs(PENDING_CMD) = {3}

\* C7: the tick in which a service completes sets service_active = false and
\* autoconsumo_enabled = true and writes both 1102 = 3 and 1101 = 0, for
\* each of the four services.
C7_CompletionRestoresAll ==
  \A s \in SERVICES :
    Completed(s)
    => /\ last.sets.service_active = <<FALSE>>
       /\ last.sets.autoconsumo_enabled = <<TRUE>>
       /\ 3 \in WritesTo(last.writes, 1102)
       /\ 0 \in WritesTo(last.writes, 1101)

\* C8: a keyboard interrupt while a service is in its pre-phase or in its
\* event clears service_active and also restores 1102 = 3, 1101 = 0 and
\* autoconsumo_enabled = true.
C8_ShutdownRestoresAll ==
  (/\ pc = "stopped"
   /\ last.branch = "KeyboardInterrupt"
   /\ \E s \in ActiveServices : InPhase(s))
  => /\ ~flags.service_active
     /\ flags.autoconsumo_enabled
     /\ 3 \in WritesTo(last.writes, 1102)
     /\ 0 \in WritesTo(last.writes, 1101)

\* C9: once run_forever has ended, by a keyboard interrupt or by an exception
\* that left a step of the loop, service_active is false and the
\* service_status mirror reads SERVICE=0.
C9_StoppedClearsServiceFlag ==
  pc = "stopped"
  => /\ ~flags.service_active
     /\ sidecar.service_active = "SERVICE=0"

\* C10: a tick of a service that is DONE leaves it DONE, writes no register
\* and sets no flag, whatever the start and end of its program.
C10_DoneIsTerminal ==
  \A s \in SERVICES :
    (last.who = s /\ last.branch = "DONE")
    => /\ state[s] = "DONE"
       /\ last.writes = <<>>
       /\ last.sets = NoSets

\* the last step was a tick of service s that read the snapshot inside the
\* event window of its program
EventTick(s) ==
  /\ last.who = s
  /\ last.in.read_ok
  /\ event_start[s] <= clock /\ clock < event_end[s]

\* C11: after every tick of a scheduled service that leaves it in
\* EVENT_ACTIVE (start <= now < end), autoconsumo_enabled is false, for each
\* of the four services and every SOC value.
C11_EventKeepsAutoconsumoOff ==
  \A s \in SERVICES :
    (EventTick(s) /\ state[s] = "EVENT_ACTIVE") => ~flags.autoconsumo_enabled

\* C12: while emergency_active is true no scheduled service writes 1101 or
\* 1102.
C12_EmergencyOwnsSetpoints ==
  (last.who \in SERVICES /\ emergency_active)
  => WritesTo(last.writes, 1101) \cup WritesTo(last.writes, 1102) = {}

\* the step is a SelfConsumption tick that gets as far as the choice between
\* the community and the local branch
AutoconsChooses ==
  /\ pc = "autocons"
  /\ last'.who = "autocons"
  /\ flags.autoconsumo_enabled
  /\ last'.in.read_ok
  /\ last'.in.v1090 >= 0 /\ last'.in.v1090 <= 10000

\* C13: a SelfConsumption tick that reads debito_energetico = true takes the
\* local-regulation branch and never the community branch.
C13_DebitoForcesLocal ==
  [][(AutoconsChooses /\ flags.debito_energetico)
     => last'.branch = "local"]_vars

\* a local tick whose inputs satisfy every other condition of the community
\* predicate: only debito_energetico can have sent it to the local branch
C13_Witness ==
  /\ last.who = "autocons"
  /\ last.branch = "local"
  /\ flags.sharing_enabled
  /\ last.in.soc >= soc_threshold_community
  /\ last.in.remote1090 > 0 /\ last.in.remote1090 < grid_setpoint_1090
  /\ last.in.v1090 >= grid_setpoint_1090 - 2 * grid_deadband

\* the last step was a watchdog tick that observed 1070 = 0 or 1
FaultTick ==
  /\ last.who = "reset"
  /\ last.in.read_ok
  /\ last.in.stato \in {0, 1}

\* C14: reset_attempts never exceeds max_attempts, and a watchdog tick that
\* starts with alarm_active = true writes nothing to 1103, whatever values
\* of 1070 the ticks observe.
C14_WatchdogBounded ==
  /\ reset_attempts <= max_attempts
  /\ (last.who = "reset" /\ last.branch = "alarm")
     => WritesTo(last.writes, 1103) = {}

\* a tick that starts in alarm, observes 1070 = 1 and finds the attempts
\* used up
C14_Witness ==
  /\ FaultTick
  /\ last.in.stato = 1
  /\ last.branch = "alarm"
  /\ alarm_active
  /\ reset_attempts = max_attempts

\* C15: counted from the last tick that saw 1070 = 2 (or from the start), the
\* ticks that observe 1070 in {0, 1} write 1103 = 10 exactly max_attempts
\* times: each such tick either writes 1103 = 10 once, the alarm still off,
\* or, when five writes are out, raises the alarm (alarm_active and
\* macchina_allarme true, mirror file MACCHINA IN ALLARME) and writes
\* nothing, or finds the alarm on and writes nothing; the alarm is on only
\* after five writes.
C15_FiveResetsThenAlarm ==
  /\ n1103 <= max_attempts
  /\ alarm_active => n1103 = max_attempts
  /\ FaultTick
     => \/ /\ last.branch = "watch"
           /\ ~alarm_active
           /\ last.writes = << <<1103, 10>> >>
           /\ n1103 \in 1..max_attempts
        \/ /\ last.branch = "watch"
           /\ alarm_active
           /\ last.writes = <<>>
           /\ flags.macchina_allarme
           /\ sidecar.macchina_allarme = "MACCHINA IN ALLARME"
        \/ /\ last.branch = "alarm"
           /\ alarm_active
           /\ last.writes = <<>>

\* the sixth tick in a row that observes a fault: five writes are out and the
\* tick has raised the alarm
C15_Witness ==
  /\ FaultTick
  /\ last.branch = "watch"
  /\ alarm_active
  /\ n1103 = max_attempts
  /\ reset_attempts = max_attempts
  /\ sidecar.macchina_allarme = "MACCHINA IN ALLARME"

\* the number of foreign frames within the last foreign_window_s time steps
\* of the i-th call of note_foreign, that call included
CallCount(i) ==
  Cardinality({j \in 1..i : events[i] - events[j] <= foreign_window_s})

\* the calls of note_foreign made by the running polling cycle
CycleCalls == (cycle_start + 1)..Len(events)

\* C16: a snapshot published more than foreign_window_s after the last
\* foreign frame shows FOREIGN_ALERT = 0.
C16_AlertClearsAfterIdle ==
  (/\ FROM_FILE # <<>>
   /\ FROM_FILE[1].FOREIGN_LAST_ISO # <<>>
   /\ FROM_FILE[1].TS_ISO - FROM_FILE[1].FOREIGN_LAST_ISO[1] > foreign_window_s)
  => FROM_FILE[1].FOREIGN_ALERT = "0"

\* C17, as stated: every call of note_foreign adds one to
\* FOREIGN_FRAMES_TOTAL, and if any call of a polling cycle finds at least
\* foreign_threshold frames in its window, the snapshot that cycle publishes
\* shows FOREIGN_ALERT = 1.
C17_AnyCallAlertsSnapshot ==
  /\ FOREIGN_FRAMES_TOTAL = Len(events)
  /\ io_pc = "published"
     => /\ FROM_FILE[1].FOREIGN_FRAMES_TOTAL = Len(events)
        /\ \A i \in CycleCalls :
             CallCount(i) >= foreign_threshold
             => FROM_FILE[1].FOREIGN_ALERT = "1"

\* C17, amended: every call of note_foreign adds one to
\* FOREIGN_FRAMES_TOTAL and leaves FOREIGN_ALERT = 1 if and only if that call
\* finds at least foreign_threshold frames in its window; the snapshot a
\* polling cycle publishes carries the total and the alert of the most
\* recent call.
C17_LastCallAlertsSnapshot ==
  /\ FOREIGN_FRAMES_TOTAL = Len(events)
  /\ events # <<>>
     => (FOREIGN_ALERT = 1 <=> CallCount(Len(events)) >= foreign_threshold)
  /\ io_pc = "published"
     => /\ FROM_FILE[1].FOREIGN_FRAMES_TOTAL = Len(events)
        /\ FROM_FILE[1].FOREIGN_ALERT = "1"
           <=> (/\ events # <<>>
                /\ CallCount(Len(events)) >= foreign_threshold)

\* a cycle that saw the third foreign frame inside the window has published
\* FOREIGN_ALERT = 1 and FOREIGN_FRAMES_TOTAL = 3
C17_Witness ==
  /\ io_pc = "published"
  /\ CycleCalls # {}
  /\ Len(events) = foreign_threshold
  /\ CallCount(Len(events)) = foreign_threshold
  /\ FROM_FILE[1].FOREIGN_ALERT = "1"
  /\ FROM_FILE[1].FOREIGN_FRAMES_TOTAL = foreign_threshold

\* the step is a tick of the watched controller that reads the same snapshot
\* values, at the same time of day and under the same flags, as its previous
\* tick
SteadyTick ==
  /\ pc = watched
  /\ last'.who = watched
  /\ prev # <<>>
  /\ last'.in.read_ok
  /\ prev[1].in = last'.in
  /\ prev[1].flags = flags
  /\ prev[1].clock = clock

\* C18: a tick that sees the same snapshot values and the same flags as the
\* previous tick of the same controller issues the same register commands as
\* that tick, or none.
C18_SteadyTicksRepeat ==
  [][SteadyTick => last'.writes \in {prev[1].writes, <<>>}]_vars

\* the last step was the battery tick that entered the emergency charge and
\* found the grid draw below grid_limit_w - grid_hysteresis_w
EntryTickBelowLimit ==
  /\ last.who = "batt"
  /\ last.branch = "enter"
  /\ meter_convert_1090_to_power(last.in.v1090)[1]
       < 5000 * (emergency_grid_limit_w - emergency_grid_hysteresis_w)

\* C19: the battery tick that enters the emergency charge with the grid draw
\* below the limit writes 1102 = 1, sets autoconsumo_enabled = false (mirror
\* AUTOCONSUMO=0) and writes a strictly negative 1101, whatever value of 1101
\* was written last before the tick.
C19_EntryWritesNegative ==
  EntryTickBelowLimit
  => /\ last.writes[1] = <<1102, 1>>
     /\ last.sets.autoconsumo_enabled = <<FALSE>>
     /\ ~flags.autoconsumo_enabled
     /\ sidecar.autoconsumo_enabled = "AUTOCONSUMO=0"
     /\ WritesTo(last.writes, 1101) # {}
     /\ \A v \in WritesTo(last.writes, 1101) : v < 0

\* the last step was a tick of the DSO-charge service that read the snapshot
DsoCaricaRead == last.who = "dso_carica" /\ last.in.read_ok

TradingScaricaEventRead ==
  /\ last.who = "trading_scarica"
  /\ last.in.read_ok
  /\ event_start["trading_scarica"] <= clock
  /\ clock < event_end["trading_scarica"]

\* C21: a trading-discharge tick inside the event window (start <= now <
\* end) writes 1102=3 then 1101=6000 when 1040 is above partition_soc_dec,
\* and writes only 1101=0, with no write to 1102, when 1040 is at or below it.
C21_TradingDischargeFloor ==
  TradingScaricaEventRead
    => /\ last.in.soc > partition_soc_dec
            => last.writes = << <<1102, 3>>, <<1101, 6000>> >>
       /\ last.in.soc <= partition_soc_dec
            => /\ last.writes = << <<1101, 0>> >>
               /\ WritesTo(last.writes, 1102) = {}

\* the floor case: the event is active and 1040 = 290 is below the partition
C21_Witness ==
  /\ TradingScaricaEventRead
  /\ last.in.soc = 290
  /\ last.writes = << <<1101, 0>> >>

\* a step of toidea_watcher that rejects the file it has just parsed: the
\* file has a new ID, and its IND or VAL is not an integer or its CMD is
\* neither 07 nor 09
WatcherRejects ==
  /\ w_pc = "poll"
  /\ TO_FILE # <<>>
  /\ TO_FILE' = TO_FILE
  /\ TO_FILE[1].ID # LAST_TOIDEA_ID
  /\ ~TO_FILE[1].ok \/ TO_FILE[1].CMD \notin {"07", "09"}
  /\ w_pc' = "except" \/ LAST_TOIDEA_ID' # LAST_TOIDEA_ID

\* C23: when the watcher rejects a command file, for an unknown CMD or for
\* an IND or VAL that is not an integer, it posts nothing into the inbox and
\* records the file's ID as last seen.
C23_RejectedFileIsConsumed ==
  [][WatcherRejects
       => /\ PENDING_CMD' = PENDING_CMD
          /\ w_cmd' = <<>>
          /\ LAST_TOIDEA_ID' = TO_FILE[1].ID]_vars

\* the step of io_worker that leaves the write loop of the taken command
WriteLoopEnds == io_pc = "write" /\ io_pc' = "take"

\* C24: for every command the worker takes, at most write_retries attempts
\* are made, then exactly one of write_ok and write_err grows by one;
\* LAST_WRITER_ID becomes the command's ID if and only if the command is
\* counted in write_ok, and a failed command is dropped, not queued again.
C24_WriteCountedOnce ==
  [][WriteLoopEnds
       => /\ io_attempts <= write_retries
          /\ \/ write_ok' = write_ok + 1 /\ write_err' = write_err
             \/ write_ok' = write_ok /\ write_err' = write_err + 1
          /\ write_ok' = write_ok + 1 <=> io_ok
          /\ io_ok => LAST_WRITER_ID' = io_cmd[1].ID
          /\ ~io_ok => LAST_WRITER_ID' = LAST_WRITER_ID
          /\ io_cmd' = <<>>
          /\ PENDING_CMD' = PENDING_CMD]_vars

\* one command was written at the first attempt and recorded, a later one
\* failed write_retries times and was dropped
C24_Witness ==
  /\ Len(executed) = 2
  /\ executed[1].ok /\ ~executed[2].ok
  /\ write_ok = 1 /\ write_err = 1
  /\ io_attempts = write_retries
  /\ io_cmd = <<>> /\ PENDING_CMD = <<>>
  /\ LAST_WRITER_ID # ""

\* C28: a command whose value is negative and inside the signed 16-bit range
\* (1101 = -6000) is accepted by the write path: when the bus answers every
\* frame it is counted as write_ok, not as write_err.
C28_NegativeSetpointWritten ==
  \A i \in 1..Len(executed) :
    (/\ executed[i].VAL \in (-32768)..(-1)
     /\ ~executed[i].fault)
      => executed[i].ok

\* the step that is a tick of the battery controller
BattTicks == pc = "batt" /\ last'.who = "batt"

\* C25: a battery tick that finds service_active true skips the emergency
\* logic for every SOC and battery current: it writes no register and leaves
\* emergency_active and autoconsumo_enabled as they are.
C25_ServiceSuspendsEmergency ==
  [][(BattTicks /\ flags.service_active)
       => /\ last'.writes = <<>>
          /\ last_values' = last_values
          /\ emergency_active' = emergency_active
          /\ flags'.autoconsumo_enabled = flags.autoconsumo_enabled
          /\ sidecar'.autoconsumo_enabled = sidecar.autoconsumo_enabled]_vars

\* a tick with a service active that reads the entry condition of the
\* emergency charge (SOC at the start threshold, low current)
C25_Witness ==
  /\ last.who = "batt"
  /\ last.branch = "service"
  /\ flags.service_active
  /\ last.in.soc = emergency_start_soc_dec
  /\ last.in.ibat = 300
  /\ ~emergency_active

\* the place of a service state on the line INIT, pre-phase, WAIT_EVENT,
\* EVENT_ACTIVE, DONE
StageOf(st) ==
  CASE st = "INIT" -> 0
    [] st \in {"PRE_DISCHARGE", "PRE_CHARGE"} -> 1
    [] st = "WAIT_EVENT" -> 2
    [] st = "EVENT_ACTIVE" -> 3
    [] st = "DONE" -> 4

\* C29: the state of a scheduled service only moves forward along INIT,
\* pre-phase, WAIT_EVENT, EVENT_ACTIVE, DONE: no tick takes a service from
\* WAIT_EVENT back to its pre-phase, nor from EVENT_ACTIVE to an earlier
\* state, whatever the SOC readings.
C29_ServiceStateMovesForward ==
  [][\A s \in SERVICES :
       state[s] \in {"WAIT_EVENT", "EVENT_ACTIVE"}
         => StageOf(state'[s]) >= StageOf(state[s])]_vars

(***************************************************************************)
(* Startup: IdeaUnifiedApp.__init__ builds the four services in order from *)
(* the configuration it has loaded.                                        *)
(***************************************************************************)
InitStartup ==
  /\ services \in ServiceEntries
  /\ programs \in [dso_programs : ProgramLists("dso_programs"),
                   trading_programs : ProgramLists("trading_programs")]
  /\ file_flags = DefaultFlags
  /\ file_status = "same"
  /\ paths_ok = TRUE
  /\ edits = 0
  /\ flags = DefaultFlags
  /\ sidecar = sync_flag_files(DefaultFlags)
  /\ last_values = [r \in {} |-> 0]
  /\ current_setpoint_1101 = param1101_min
  /\ emergency_active = FALSE
  /\ active = [s \in SERVICES |-> FALSE]
  /\ state = [s \in SERVICES |-> "INIT"]
  /\ event_start = [s \in SERVICES |-> NoWindow[1]]
  /\ event_end = [s \in SERVICES |-> NoWindow[2]]
  /\ reset_attempts = 0
  /\ alarm_active = FALSE
  /\ pc = CtorPc[CTOR_ORDER[1]]
  /\ next_run = [k \in CONTROLLERS |-> 0]
  /\ since_tick = [k \in CONTROLLERS |-> -1]
  /\ clock = 0
  /\ last = [who |-> "init", in |-> <<>>, writes |-> <<>>, sets |-> NoSets,
             branch |-> "init"]
  /\ n1103 = 0
  /\ watched = "none"
  /\ prev = <<>>
  /\ ServerIdle

\* the constructor of the i-th service; after the last one run_forever begins
Construct(i) ==
  LET s == CTOR_ORDER[i]
      r == service_init(s, services, programs)
  IN /\ pc = CtorPc[s]
     /\ active' = [active EXCEPT ![s] = r.active]
     /\ event_start' = [event_start EXCEPT ![s] = r.window[1]]
     /\ event_end' = [event_end EXCEPT ![s] = r.window[2]]
     /\ flags' = set_flags(flags, r.sets)
     /\ sidecar' = set_sidecar(sidecar, r.sets)
     /\ last' = [who |-> "init", in |-> <<>>, writes |-> <<>>,
                 sets |-> r.sets, branch |-> s]
     /\ pc' = IF i < Len(CTOR_ORDER) THEN CtorPc[CTOR_ORDER[i + 1]]
              ELSE "cfg_reload"
     /\ UNCHANGED <<file_flags, file_status, paths_ok, edits, services,
                    programs, toiVars, current_setpoint_1101,
                    emergency_active, state, reset_attempts, alarm_active,
                    next_run, since_tick, clock, obsVars, srvVars>>

NewDsoCarica == Construct(1)
NewDsoScarica == Construct(2)
NewTradingScarica == Construct(3)
NewTradingCarica == Construct(4)

NextStartup ==
  \/ NewDsoCarica
  \/ NewDsoScarica
  \/ NewTradingScarica
  \/ NewTradingCarica

SpecStartup == InitStartup /\ [][NextStartup]_vars

\* the step that is the constructor of service s
Constructs(s) == pc = CtorPc[s] /\ pc' # pc

\* the programs of today of the mode of service s, in the order of the list
TodaysPrograms(s) ==
  SelectSeq(programs[Family(s)],
            LAMBDA p : p.mode = ProgramMode(s) /\ p.today)

C22_NoTickWithOwnCommandPending ==
  [][\A k \in CONTROLLERS :
       (pc = k /\ last'.who = k)
         => \A q \in PendingSeqs : issued[q].who # k]_vars

C30_PairedWritesBothArrive ==
  \A q \in 1..Len(issued) :
    issued[q].more => q \notin file_lost \cup overwritten

(***************************************************************************)
(* Hot reload and the flags the controllers set                            *)
(***************************************************************************)
\* C31: a reload of an externally modified configuration file leaves every
\* flag the controllers set at runtime (autoconsumo_enabled, service_active,
\* debito_energetico, macchina_allarme) at the value it had in memory, and
\* the re-mirrored sidecar files show those same values.
C31_ReloadKeepsRuntimeFlags ==
  [][(last'.who = "cfg_reload" /\ last'.branch \in {"changed", "no_paths"})
       => \A n \in SetNames :
            /\ flags'[n] = flags[n]
            /\ sidecar'[n] = MirrorText(n, flags[n])]_vars

(***************************************************************************)
(* Energy debt after a self-consumption tick                               *)
(***************************************************************************)
\* C32: after every self-consumption tick that passes the gates
\* (autoconsumo_enabled true, 1090 within [0, 10000]), in the local and in
\* the community branch alike, debito_energetico equals (1101 ==
\* param1101_max and 1090 < 5000 - deadband) on that tick's clamped 1101 and
\* measured 1090.
C32_DebitoFollowsEveryTick ==
  [][(last'.who = "autocons"
      /\ last'.branch \in {"local", "community", "community_idle"})
       => flags'.debito_energetico
            = (/\ current_setpoint_1101' = param1101_max
               /\ last'.in.v1090 < grid_setpoint_1090 - grid_deadband)]_vars

(***************************************************************************)
(* Write-with-commit                                                       *)
(***************************************************************************)
\* C33: a write-with-commit command (CMD 09, commit register configured)
\* whose commit-register write failed in the last attempt is not counted as
\* successful: the read-back of the primary register never turns the failed
\* commit into a success.
C33_CommitFailureIsNotSuccess ==
  [][(/\ io_pc = "write" /\ io_pc' = "take"
      /\ with_commit(io_cmd[1])
      /\ io_commit = "failed")
       => /\ write_ok' = write_ok
          /\ LAST_WRITER_ID' = LAST_WRITER_ID]_vars

(***************************************************************************)
(* The bus server, the read half of io_worker: the configured addresses    *)
(* are deduplicated, sorted, cut into contiguous blocks and these into     *)
(* chunks of at most read_max_chunk registers; each chunk is read, a chunk *)
(* that does not answer is halved, and write_fromidea publishes the        *)
(* registers.  A range is the pair <<start, stop>> of range(start, stop),  *)
(* a chunk the pair <<s, ln>>, a dict a function on its keys.              *)
(***************************************************************************)
\* the addresses a configuration lists, with one gap
Addrs == {1, 2, 3, 5}
\* values of read_max_chunk
ChunkSizes == {1, 2, 3}
\* what the inverter answers for a register
ReadValues == {7, 8}
\* CFG.get("read_min_chunk", 1)
read_min_chunk == 1

\* every list of at most n addresses, in any order, with duplicates
BlockLists(n) == UNION {[1..k -> Addrs] : k \in 0..n}

\* the lists the polling cycles are run on: one block that is cut in two
\* chunks and a single address; a list out of order with a duplicate; none
ReadLists == {<<1, 2, 3, 5>>, <<2, 1, 2>>, <<>>}

RECURSIVE sorted(_)
\* sorted(S) of a set
sorted(S) ==
  IF S = {} THEN <<>>
  ELSE LET m == CHOOSE x \in S : \A y \in S : x <= y
       IN <<m>> \o sorted(S \ {m})

\* uniq_sorted: sorted({int(a) for a in addrs})
uniq_sorted(addrs) == sorted({addrs[i] : i \in DOMAIN addrs})

RECURSIVE blocks_from(_, _, _, _)
\* the for loop of contiguous_blocks over zip(a, a[1:]), from the pair
\* (a[i-1], a[i]) on, and the append after it
blocks_from(a, i, start, blocks) ==
  IF i > Len(a) THEN Append(blocks, <<start, a[Len(a)] + 1>>)
  ELSE IF a[i] # a[i - 1] + 1
  THEN blocks_from(a, i + 1, a[i], Append(blocks, <<start, a[i - 1] + 1>>))
  ELSE blocks_from(a, i + 1, start, blocks)

\* contiguous_blocks
contiguous_blocks(addrs) ==
  IF addrs = <<>> THEN <<>>
  ELSE LET a == uniq_sorted(addrs) IN blocks_from(a, 2, a[1], <<>>)

RECURSIVE split_from(_, _, _, _)
\* the while loop of split_range
split_from(s, e, max_len, out) ==
  IF s < e
  THEN LET ln == IF max_len < e - s THEN max_len ELSE e - s
       IN split_from(s + ln, e, max_len, Append(out, <<s, ln>>))
  ELSE out

\* variant whose chunks all have the full length
split_range_full_chunks(r, max_len) ==
  [i \in 1..((r[2] - r[1] + max_len - 1) \div max_len) |->
     <<r[1] + (i - 1) * max_len, max_len>>]

\* split_range
split_range(r, max_len) == split_from(r[1], r[2], max_len, <<>>)

RECURSIVE chunks_of(_, _)
\* `for block in contiguous_blocks(addrs): for s, ln in split_range(block,
\* max_chunk)`: the chunks in the order the loops visit them
chunks_of(blocks, max_chunk) ==
  IF blocks = <<>> THEN <<>>
  ELSE split_range(Head(blocks), max_chunk)
         \o chunks_of(Tail(blocks), max_chunk)

\* dict.get(k, default)
dict_get(d, k, default) == IF k \in DOMAIN d THEN d[k] ELSE default

\* `for off, v in enumerate(regs): d[s + off] = int(v)`, every register of
\* the answer holding v
dict_store(d, s, n, v) ==
  [a \in DOMAIN d \cup (s..(s + n - 1)) |->
     IF a \in s..(s + n - 1) THEN v ELSE d[a]]

\* variant that publishes this cycle's reads only
published_value_this_cycle(vals, lastok, a) == dict_get(vals, a, 0)

\* write_fromidea: `values.get(a, LAST_OK.get(a, 0))`
published_value(vals, lastok, a) == dict_get(vals, a, dict_get(lastok, a, 0))

\* io_worker, step 2 up to the for loops: no address configured, the worker
\* sleeps and begins again; else values and any_ok start empty and the
\* first chunk is up
ReadPlan ==
  /\ r_pc = "plan"
  /\ cycles < MaxCycles
  /\ LET addrs == uniq_sorted(read_blocks)
         plan == chunks_of(contiguous_blocks(addrs), read_max_chunk)
     IN IF addrs = <<>>
        THEN UNCHANGED <<r_pc, chunks, r_k, r_cur, values, any_ok,
                         unreadable, cycles>>
        ELSE /\ chunks' = plan
             /\ r_k' = 1
             /\ r_cur' = plan[1][2]
             /\ values' = <<>>
             /\ any_ok' = FALSE
             /\ unreadable' = {}
             /\ cycles' = cycles + 1
             /\ r_pc' = "read"
  /\ UNCHANGED <<appVars, TO_FILE, PENDING_CMD, LAST_TOIDEA_ID, w_pc, w_cmd,
                 io_pc, io_cmd, executed, overwritten, nseq, fgnVars, wrVars,
                 busVars, legVars, read_blocks, read_max_chunk, LAST_OK, snapshot,
                 last_good>>

\* after a chunk: the next one with cur = ln, or write_fromidea
NextChunk ==
  /\ r_k' = r_k + 1
  /\ IF r_k < Len(chunks)
     THEN r_cur' = chunks[r_k + 1][2] /\ r_pc' = "read"
     ELSE r_cur' = 0 /\ r_pc' = "publish"

\* io_worker, one round of `while cur >= min_chunk`: the max_retry reads of
\* (s, cur) give an answer, which goes into values and LAST_OK and ends the
\* chunk, or none of them does, and cur is halved; below min_chunk the
\* range is logged as without answer and the chunk ends
ReadChunk ==
  /\ r_pc = "read"
  /\ LET s == chunks[r_k][1]
         ln == chunks[r_k][2]
     IN \E regs \in {<<>>} \cup {<<v>> : v \in ReadValues} :
          IF regs = <<>>
          THEN /\ IF r_cur \div 2 < read_min_chunk
                  THEN /\ unreadable' = unreadable \cup (s..(s + ln - 1))
                       /\ NextChunk
                  ELSE /\ r_cur' = r_cur \div 2
                       /\ UNCHANGED <<unreadable, r_k, r_pc>>
               /\ UNCHANGED <<values, LAST_OK, any_ok, last_good>>
          ELSE /\ values' = dict_store(values, s, r_cur, regs[1])
               /\ LAST_OK' = dict_store(LAST_OK, s, r_cur, regs[1])
               /\ last_good' = dict_store(last_good, s, r_cur, regs[1])
               /\ any_ok' = TRUE
               /\ NextChunk
               /\ UNCHANGED unreadable
  /\ UNCHANGED <<appVars, TO_FILE, PENDING_CMD, LAST_TOIDEA_ID, w_pc, w_cmd,
                 io_pc, io_cmd, executed, overwritten, nseq, fgnVars, wrVars,
                 busVars, legVars, read_blocks, read_max_chunk, chunks, snapshot,
                 cycles>>

\* write_fromidea(values, any_ok): one element per entry of read_blocks
ReadPublish ==
  /\ r_pc = "publish"
  /\ snapshot' = [i \in DOMAIN read_blocks |->
                    <<read_blocks[i],
                      published_value(values, LAST_OK, read_blocks[i])>>]
  /\ r_pc' = "plan"
  /\ UNCHANGED <<appVars, TO_FILE, PENDING_CMD, LAST_TOIDEA_ID, w_pc, w_cmd,
                 io_pc, io_cmd, executed, overwritten, nseq, fgnVars, wrVars,
                 busVars, legVars, read_blocks, read_max_chunk, chunks, r_k, r_cur,
                 values, LAST_OK, any_ok, last_good, unreadable, cycles>>

\* the bus server with its read loop alone: no command arrives
ServerReads(lists) ==
  /\ InitApp
  /\ \A s \in SERVICES : ~active[s]
  /\ TO_FILE = <<>> /\ PENDING_CMD = <<>> /\ LAST_TOIDEA_ID = ""
  /\ w_pc = "poll" /\ w_cmd = <<>> /\ io_pc = "take" /\ io_cmd = <<>>
  /\ executed = <<>> /\ overwritten = {} /\ nseq = 0
  /\ t_now = 0 /\ FOREIGN_TIMES = <<>> /\ FOREIGN_FRAMES_TOTAL = 0
  /\ FOREIGN_ALERT = 0 /\ FOREIGN_LAST_ISO = <<>> /\ FROM_FILE = <<>>
  /\ events = <<>> /\ cycle_start = 0
  /\ io_attempts = 0 /\ io_ok = FALSE /\ io_fault = FALSE
  /\ io_commit = "none" /\ write_ok = 0 /\ write_err = 0
  /\ LAST_WRITER_ID = ""
  /\ current_id = 0 /\ tx = <<>> /\ issued = <<>> /\ file_lost = {}
  /\ read_blocks \in lists
  /\ read_max_chunk \in ChunkSizes
  /\ r_pc = "plan" /\ chunks = <<>> /\ r_k = 1 /\ r_cur = 0
  /\ values = <<>> /\ LAST_OK = <<>> /\ any_ok = FALSE /\ snapshot = <<>>
  /\ last_good = <<>> /\ unreadable = {} /\ cycles = 0
  /\ LegacyIdle

InitRead == ServerReads(ReadLists)

NextRead ==
  \/ ReadPlan
  \/ ReadChunk
  \/ ReadPublish

SpecRead == InitRead /\ [][NextRead]_vars

\* the chunking alone, on every list of at most MaxBlocks addresses
InitChunks == ServerReads(BlockLists(MaxBlocks))

NextChunks == ReadPlan

SpecChunks == InitChunks /\ [][NextChunks]_vars

(***************************************************************************)
(* Coverage of the read set                                                *)
(***************************************************************************)
\* C34: in every polling cycle every configured address is covered: when
\* the cycle's reads are over, each address was read in this cycle or
\* belongs to a range that was retried down to read_min_chunk and logged as
\* unreadable; the addresses left over by a halved chunk are not skipped.
C34_EveryAddressCovered ==
  r_pc = "publish"
    => \A i \in DOMAIN read_blocks :
         read_blocks[i] \in DOMAIN values \cup unreadable

(***************************************************************************)
(* The published snapshot                                                  *)
(***************************************************************************)
\* C35: in every published snapshot the value of each configured address is
\* the value of the most recent successful read of that address in the whole
\* run, 0 if there was none; a failed read neither changes nor clears it.
C35_SnapshotShowsLastGood ==
  [][(r_pc = "publish" /\ r_pc' = "plan")
       => /\ Len(snapshot') = Len(read_blocks)
          /\ \A i \in DOMAIN read_blocks :
               snapshot'[i] = <<read_blocks[i],
                                dict_get(last_good, read_blocks[i], 0)>>]_vars

\* a second cycle was published in which an address read before was not
\* read again, and one address was never read at all
C35_Witness ==
  /\ r_pc = "plan"
  /\ cycles = 2
  /\ \E a \in DOMAIN LAST_OK : a \notin DOMAIN values
  /\ \E i \in DOMAIN snapshot :
       snapshot[i][1] \notin DOMAIN LAST_OK /\ snapshot[i][2] = 0
  /\ \E i \in DOMAIN snapshot :
       snapshot[i][1] \in DOMAIN LAST_OK \ DOMAIN values
       /\ snapshot[i][2] = LAST_OK[snapshot[i][1]]

(***************************************************************************)
(* The chunks of a read set                                                *)
(***************************************************************************)
\* the addresses of a chunk
Span(c) == c[1]..(c[1] + c[2] - 1)

\* C36: for every list of addresses and every read_max_chunk >= 1 the
\* chunks are runs of consecutive addresses of length 1..read_max_chunk, in
\* ascending order and pairwise disjoint, whose union is exactly the set of
\* the distinct configured addresses (so no chunk spans a gap).
C36_ChunksPartitionReadSet ==
  r_pc = "read"
    => /\ \A k \in DOMAIN chunks :
            chunks[k][2] >= 1 /\ chunks[k][2] <= read_max_chunk
       /\ \A k \in 1..(Len(chunks) - 1) :
            chunks[k][1] + chunks[k][2] <= chunks[k + 1][1]
       /\ UNION {Span(chunks[k]) : k \in DOMAIN chunks}
            = {read_blocks[i] : i \in DOMAIN read_blocks}

\* a list out of order with a duplicate and a gap, whose block of three is
\* cut into a full chunk and a shorter one
C36_Witness ==
  /\ r_pc = "read"
  /\ read_blocks = <<5, 2, 3, 1>> \/ read_blocks = <<3, 3, 2, 1>>
  /\ read_max_chunk = 2
  /\ \E k \in DOMAIN chunks : chunks[k] = <<1, 2>>
  /\ \E k \in DOMAIN chunks : chunks[k] = <<3, 1>>

(***************************************************************************)
(* The scheduler loop with iterations that come before every controller is *)
(* due again: between two iterations 0.5 s or 1.5 s pass.  The controllers *)
(* read nothing (their files are missing), the watchdog reads 1070 = 2.    *)
(***************************************************************************)
ShortAdvances == {1, 3}

TimingCfgReloadTick == CfgReloadTick
TimingAutoconsTick == AutoconsStep({AutoconsUnread}) /\ UNCHANGED srvVars
TimingBattTick ==
  BattStep({[read_ok |-> FALSE, soc |-> 0, ibat |-> 0, v1090 |-> 0]})
  /\ UNCHANGED srvVars
TimingResetTick == ResetTickOn({[read_ok |-> TRUE, stato |-> 2]})
TimingDsoCaricaTick == ServiceStep("dso_carica", {ServiceUnread})
TimingDsoScaricaTick == ServiceStep("dso_scarica", {ServiceUnread})
TimingTradingScaricaTick == ServiceStep("trading_scarica", {ServiceUnread})
TimingTradingCaricaTick == ServiceStep("trading_carica", {ServiceUnread})
TimingSleep == SleepStep(ShortAdvances)

InitTiming == Init

NextTiming ==
  \/ TimingCfgReloadTick
  \/ TimingAutoconsTick
  \/ TimingBattTick
  \/ TimingResetTick
  \/ TimingDsoCaricaTick
  \/ TimingDsoScaricaTick
  \/ TimingTradingScaricaTick
  \/ TimingTradingCaricaTick
  \/ TimingSleep

SpecTiming == InitTiming /\ [][NextTiming]_vars

\* C37: a controller is ticked in an iteration only if its next_due <= now,
\* and then its next_due is now + period, so that the iterations of two
\* consecutive ticks of one controller are at least one period apart; a
\* scheduled service whose active flag is false is never ticked; within one
\* iteration the due controllers run in the order config-reload,
\* self-consumption, battery, watchdog, DSO charge, DSO discharge, trading
\* discharge, trading charge, none of them left out.
C37_TicksDueInOrder ==
  [][\A k \in CONTROLLERS :
       (pc = k /\ last'.who = k)
         => /\ next_run[k] = 0
            /\ next_run'[k] = intervals[k]
            /\ since_tick[k] = -1 \/ since_tick[k] >= intervals[k]
            /\ k \in SERVICES => active[k]
            /\ pc' \in CONTROLLERS => IndexOf(pc') > IndexOf(k)
            /\ \A j \in (IndexOf(k) + 1)..Len(ORDER) :
                 (pc' = "sleep" \/ (pc' \in CONTROLLERS /\ j < IndexOf(pc')))
                   => ~Due(ORDER[j], next_run', active')]_vars

\* an iteration 0.5 s after the one before it has ticked self-consumption
\* alone: config-reload, battery, watchdog and an active service were not
\* due and were passed over
C37_Witness ==
  /\ pc = "sleep"
  /\ last.who = "autocons"
  /\ since_tick["cfg_reload"] = 1
  /\ since_tick["batt"] = 1
  /\ since_tick["reset"] = 1
  /\ \E s \in SERVICES : active[s] /\ since_tick[s] = 1

(***************************************************************************)
(* The standalone scripts: BatteryController (battery_controller.py) and   *)
(* MachineStateResetService (controllo_reset_macchina.py).  Their ticks    *)
(* give the same kind of record as the unified ones: the register writes   *)
(* of update_toi_dea in order, and in sets the files they write (the       *)
(* guardrail file under autoconsumo_enabled, the alarm file under          *)
(* macchina_allarme).                                                      *)
(***************************************************************************)
\* BatteryController.read_service_active on the text of service_status.txt
read_service_active(text) == text = "1" \/ text = "SERVICE=1"

\* the VAL left in ToiDea.xml by these update_toi_dea calls
toidea_val_after(val, writes) ==
  IF writes = <<>> THEN val ELSE writes[Len(writes)][2]

\* BatteryController.handle_emergency_charge; val is the VAL of ToiDea.xml,
\* which current_1101_from_toi_dea takes for the current 1101
standalone_handle_emergency_charge(ea, val, soc, ibat) ==
  LET enter == /\ ~ea
               /\ soc = emergency_start_soc_dec
               /\ ibat_low_min <= ibat /\ ibat <= ibat_low_max
      w1 == IF enter THEN << <<1102, 1>> >> ELSE <<>>
      s1 == IF enter THEN [NoSets EXCEPT !.autoconsumo_enabled = <<FALSE>>]
            ELSE NoSets
      current_1101 == toidea_val_after(val, w1)
      moved == IF ibat < ibat_min THEN <<current_1101 - step_emergency_1101>>
               ELSE IF ibat > ibat_max
               THEN <<current_1101 + step_emergency_1101>>
               ELSE <<>>
      lo == IF moved[1] < guardrail_1101_min THEN guardrail_1101_min
            ELSE moved[1]
      nuovo_1101 == IF lo > emergency_1101_max THEN emergency_1101_max ELSE lo
  IN IF ~(ea \/ enter)
     THEN [emergency_active |-> FALSE, writes |-> <<>>, sets |-> NoSets,
           branch |-> "idle"]
     ELSE IF soc >= emergency_stop_soc_dec
     THEN [emergency_active |-> FALSE,
           writes |-> w1 \o << <<1102, 3>> >>,
           sets |-> [s1 EXCEPT !.autoconsumo_enabled = <<TRUE>>],
           branch |-> "exit"]
     ELSE [emergency_active |-> TRUE,
           writes |-> IF moved = <<>> THEN w1
                      ELSE w1 \o << <<1101, nuovo_1101>> >>,
           sets |-> s1,
           branch |-> IF enter THEN "enter" ELSE "regulate"]

\* BatteryController.tick
standalone_battery_tick(ea, val, service_text, in) ==
  IF ~in.read_ok
  THEN [emergency_active |-> ea, writes |-> <<>>, sets |-> NoSets,
        branch |-> "unread"]
  ELSE IF read_service_active(service_text)
  THEN [emergency_active |-> ea, writes |-> <<>>, sets |-> NoSets,
        branch |-> "service"]
  ELSE standalone_handle_emergency_charge(ea, val, in.soc, in.ibat)

\* variant that leaves the alarm once raised
standalone_reset_tick_keeps_alarm(attempts, alarm, in) ==
  IF ~in.read_ok
  THEN [reset_attempts |-> attempts, alarm_active |-> alarm,
        writes |-> <<>>, sets |-> NoSets]
  ELSE IF in.stato = 2
  THEN [reset_attempts |-> 0, alarm_active |-> alarm, writes |-> <<>>,
        sets |-> NoSets]
  ELSE IF in.stato \in {0, 1} /\ ~alarm
  THEN IF attempts < max_attempts
       THEN [reset_attempts |-> attempts + 1, alarm_active |-> alarm,
             writes |-> << <<1103, 10>> >>, sets |-> NoSets]
       ELSE [reset_attempts |-> attempts, alarm_active |-> TRUE,
             writes |-> <<>>,
             sets |-> [NoSets EXCEPT !.macchina_allarme = <<TRUE>>]]
  ELSE [reset_attempts |-> attempts, alarm_active |-> alarm,
        writes |-> <<>>, sets |-> NoSets]

\* MachineStateResetService.tick
standalone_reset_tick(attempts, alarm, in) ==
  IF ~in.read_ok
  THEN [reset_attempts |-> attempts, alarm_active |-> alarm,
        writes |-> <<>>, sets |-> NoSets]
  ELSE IF in.stato = 2
  THEN [reset_attempts |-> 0,
        alarm_active |-> IF alarm THEN FALSE ELSE alarm,
        writes |-> <<>>,
        sets |-> IF alarm THEN [NoSets EXCEPT !.macchina_allarme = <<FALSE>>]
                 ELSE NoSets]
  ELSE IF in.stato \in {0, 1}
  THEN IF alarm
       THEN [reset_attempts |-> attempts, alarm_active |-> alarm,
             writes |-> <<>>, sets |-> NoSets]
       ELSE IF attempts < max_attempts
       THEN [reset_attempts |-> attempts + 1, alarm_active |-> alarm,
             writes |-> << <<1103, 10>> >>, sets |-> NoSets]
       ELSE [reset_attempts |-> attempts, alarm_active |-> TRUE,
             writes |-> <<>>,
             sets |-> [NoSets EXCEPT !.macchina_allarme = <<TRUE>>]]
  ELSE [reset_attempts |-> attempts, alarm_active |-> alarm,
        writes |-> <<>>, sets |-> NoSets]

\* the file a write_guardrail_autoconsumo or write_alarm_message call leaves
file_after(text, name, set) ==
  IF set = <<>> THEN text ELSE MirrorText(name, set[1])

(***************************************************************************)
(* The unified controller and the standalone scripts side by side: every   *)
(* battery tick and every watchdog tick of the one is a tick of the other  *)
(* on the same values of FromiDea.xml.  No service is scheduled and        *)
(* self-consumption reads nothing.                                         *)
(***************************************************************************)
PairCfgReloadTick == CfgReloadTick
PairAutoconsTick == AutoconsStep({AutoconsUnread}) /\ UNCHANGED srvVars
PairSleep == Sleep

PairBattTick ==
  \E in \in BattInputs :
    LET eff == standalone_battery_tick(legacy.emergency_active,
                                       legacy.toidea_val,
                                       sidecar.service_active, in)
    IN /\ BattStep({in})
       /\ legacy' = [legacy EXCEPT
                       !.emergency_active = eff.emergency_active,
                       !.toidea_val = toidea_val_after(@, eff.writes),
                       !.guardrail = file_after(@, "autoconsumo_enabled",
                                                eff.sets.autoconsumo_enabled)]
       /\ legacy_last' = [who |-> "batt", in |-> in, writes |-> eff.writes,
                          sets |-> eff.sets, branch |-> eff.branch]
       /\ UNCHANGED busSrvVars

PairResetTick ==
  \E in \in WatchdogInputs :
    LET eff == standalone_reset_tick(legacy.reset_attempts,
                                     legacy.alarm_active, in)
    IN /\ ResetStep({in})
       /\ legacy' = [legacy EXCEPT
                       !.reset_attempts = eff.reset_attempts,
                       !.alarm_active = eff.alarm_active,
                       !.alarm_file = file_after(@, "macchina_allarme",
                                                 eff.sets.macchina_allarme)]
       /\ legacy_last' = [who |-> "reset", in |-> in, writes |-> eff.writes,
                          sets |-> eff.sets,
                          branch |-> IF legacy.alarm_active THEN "alarm"
                                     ELSE "watch"]
       /\ UNCHANGED busSrvVars

InitPair ==
  /\ InitApp
  /\ \A s \in SERVICES : ~active[s]
  /\ ServerIdle

NextPair ==
  \/ PairCfgReloadTick
  \/ PairAutoconsTick
  \/ PairBattTick
  \/ PairResetTick
  \/ PairSleep

SpecPair == InitPair /\ [][NextPair]_vars

(***************************************************************************)
(* Emergency exit                                                          *)
(***************************************************************************)
\* what is asked of a battery tick that has read its values: eff is what
\* the tick did, ea and ea2 its emergency_active before and after, svc the
\* service flag it saw
ExitAsSpecified(eff, ea, ea2, svc) ==
  LET cond == ea /\ ~svc /\ eff.in.soc >= emergency_stop_soc_dec
  IN /\ (eff.branch = "exit") <=> cond
     /\ cond => /\ ~ea2
                /\ \A i \in 1..Len(eff.writes) :
                     eff.writes[i] \in {<<1102, 3>>, <<1101, 0>>}
                /\ \E i \in 1..Len(eff.writes) : eff.writes[i] = <<1102, 3>>
                /\ \E i \in 1..Len(eff.writes) : eff.writes[i] = <<1101, 0>>
                /\ eff.sets.autoconsumo_enabled = <<TRUE>>
     /\ (~ea /\ eff.in.soc >= emergency_stop_soc_dec)
          => eff.writes = <<>> /\ eff.sets = NoSets

\* C38: the emergency exit happens on a battery-controller tick exactly
\* when emergency_active is true, service_active is false and 1040 >=
\* emergency_stop_soc_dec; that tick clears emergency_active, writes 1102=3
\* and 1101=0 and nothing else, and sets autoconsumo_enabled true; a tick
\* with emergency_active false and 1040 >= emergency_stop_soc_dec writes
\* nothing and sets no flag.  This holds of BatteryControllerUnified and of
\* the standalone BatteryController.
C38_EmergencyExit ==
  [][(pc = "batt" /\ last'.who = "batt" /\ last'.in.read_ok)
       => /\ ExitAsSpecified(last', emergency_active, emergency_active',
                             flags.service_active)
          /\ ExitAsSpecified(legacy_last', legacy.emergency_active,
                             legacy'.emergency_active,
                             read_service_active(sidecar.service_active))]_vars

(***************************************************************************)
(* The two watchdogs                                                       *)
(***************************************************************************)
\* C40: fed the same readings of 1070 from the same initial state, the
\* unified and the standalone watchdog issue the same 1103=10 writes on the
\* same ticks and have equal reset_attempts and alarm_active after every
\* tick, and the macchina_allarme flag (with its mirror file) says what the
\* standalone alarm file says.
C40_WatchdogsAgree ==
  [][(pc = "reset" /\ last'.who = "reset")
       => /\ legacy_last'.writes = last'.writes
          /\ legacy'.reset_attempts = reset_attempts'
          /\ legacy'.alarm_active = alarm_active'
          /\ legacy'.alarm_file
               = MirrorText("macchina_allarme", flags'.macchina_allarme)
          /\ legacy'.alarm_file = sidecar'.macchina_allarme]_vars

\* both watchdogs have made their five resets, raised the alarm, and then
\* seen the machine operative again
C40_Witness ==
  /\ last.who = "reset"
  /\ last.branch = "alarm"
  /\ last.in.read_ok /\ last.in.stato = 2
  /\ legacy_last.branch = "alarm"
  /\ ~legacy.alarm_active /\ ~alarm_active
  /\ legacy.alarm_file = "MACCHINA OK"
  /\ n1103 = 0

(***************************************************************************)
(* ScaricaForzataDSOUnified.tick, phase by phase.                          *)
(***************************************************************************)
\* a DSO-discharge tick that has read FromiDea.xml
DsoScaricaRead == last.who = "dso_scarica" /\ last.in.read_ok

====
